---------------------------- MODULE Spec2Model ----------------------------
(***************************************************************************)
(* A model of the voice summarizer: the classes of src/utils (audio        *)
(* processing, transcription, the text stage of utils/summarizer.py with   *)
(* clean_text, chunk_text, summarize and post-processing), called on their *)
(* own and by callers that run the stages in the order of the pipeline.    *)
(*                                                                         *)
(* The script src/app.py is no part of the model: line 77 is "with tab1:"  *)
(* and line 78 stands to the left of it, so Python refuses the file with   *)
(* an IndentationError before any line of it runs.  Of app.py the model    *)
(* uses only the texts of the options of its select boxes.                 *)
(*                                                                         *)
(* A text is a sequence of one-character strings.  The pretrained models   *)
(* (speech, summarization) are opaque: their outcomes are inputs of the    *)
(* actions.  The tokenizer is modelled by the pre-tokenisation rule of the *)
(* byte-level BPE tokenizer of facebook/bart-large-cnn, one token per      *)
(* pre-token, with the two special tokens <s> and </s> that encode() adds  *)
(* and decode() writes back.                                               *)
(***************************************************************************)
EXTENDS Integers, Sequences, FiniteSets, TLC

VARIABLES
    \* ---- chunk_text called on its own (SpecChunk) ----
    ck_text,        \* the text handed to chunk_text
    ck_max,         \* its max_length
    ck_tok,         \* TRUE iff the call had a tokenizer after lines 58-59
    ck_pc,          \* "call" before the call, "done" after it
    ck_out,         \* the list chunk_text returned
    \* ---- the transcriber object ----
    transcriber_cache,  \* what the memoized load_model() gives: "model", or
                        \* "none" when the load failed
    transcriber_model,  \* self.model: "none" or "model"
    \* ---- the summarizer object ----
    sum_cache,      \* what the memoized load_model() gives: "pipeline", or
                    \* "none" when the load failed
    sum_self,       \* self.summarizer and self.tokenizer: "none" or "pipeline"
    \* ---- summarize called on its own (SpecSum) ----
    sm_text,        \* the text handed to summarize
    sm_config,      \* its config
    sm_pc,          \* "call" before the call, "done" after it
    sm_outcomes,    \* what the model did with each chunk
    sm_ret,         \* what the call did
    \* ---- post_process_summary called on its own (SpecPost) ----
    pp_text,        \* the summary handed to post_process_summary
    pp_config,      \* its config
    pp_pc,          \* "call" before the call, "done" after it
    pp_out,         \* the text it returned
    \* ---- transcribe called on its own (SpecTranscribe) ----
    tr_exists,      \* os.path.exists(audio_file_path)
    tr_run,         \* what the speech model does: ModelRuns
    tr_speech,      \* result["text"] of the speech model
    tr_pc,          \* "call" before the call, "done" after it
    tr_ret,         \* what the call did
    \* ---- process_audio called on its own (SpecAudio) ----
    au_file,        \* the audio file handed to process_audio
    au_content,     \* what the file holds
    au_fail,        \* the step of normalize_audio that raises, "none"
    au_pc,          \* "call" before the call, "done" after it
    au_ret,         \* what the call did
    \* ---- the memoized load_model() of the two classes (SpecLoad) ----
    ld_memo,        \* per model, what st.cache_resource holds for load_model:
                    \* "empty", or the value the one run of the body returned
    ld_runs,        \* per model, the runs of the body of load_model so far
    ld_self,        \* per model, self.model / self.summarizer of each object
                    \* constructed so far
    ld_last,        \* the operation just made and its call of load_model
    ld_steps,       \* the operations so far
    \* ---- two sessions on the shared components (SpecSessions) ----
    cc_audio_file,  \* per session, the audio file of its run
    cc_pc,          \* per session, where its run of the pipeline is:
                    \* "ready" (not begun), "audio" (process_audio returned),
                    \* "exists" (transcribe is past line 44), "model" (it is
                    \* past line 51), "read" (the speech model has read the
                    \* file), "text" (transcribe returned), "chunks"
                    \* (summarize is at the summarization model), "done"
                    \* (summarize returned), "error" (process_audio raised)
    cc_scratch,     \* the audio in temp/processed_audio.wav
    cc_loaded,      \* what the memoized load_model() of each class gives
    cc_model,       \* self.model of the one transcriber
    cc_summarizer,  \* self.summarizer of the one summarizer
    cc_heard,       \* per session, the file whose audio its transcribe() read
    cc_transcription,  \* per session, the text transcribe() returned last
    cc_summary      \* per session, the text summarize() returned last

ck_vars == <<ck_text, ck_max, ck_tok, ck_pc, ck_out>>
sm_vars == <<sm_text, sm_config, sm_pc, sm_outcomes, sm_ret>>
obj_vars == <<sum_cache, sum_self, transcriber_cache, transcriber_model>>
pp_vars == <<pp_text, pp_config, pp_pc, pp_out>>
tr_vars == <<tr_exists, tr_run, tr_speech, tr_pc, tr_ret>>
au_vars == <<au_file, au_content, au_fail, au_pc, au_ret>>
ld_vars == <<ld_memo, ld_runs, ld_self, ld_last, ld_steps>>
cc_vars == <<cc_audio_file, cc_pc, cc_scratch, cc_loaded, cc_model, cc_summarizer,
             cc_heard, cc_transcription, cc_summary>>
fn_vars == <<pp_vars, tr_vars, au_vars, ld_vars, cc_vars>>
vars == <<ck_vars, sm_vars, obj_vars, fn_vars>>

-----------------------------------------------------------------------------
(* Characters and sequences *)

Lower == {"a","b","c","d","e","f","g","h","i","j","k","l","m",
          "n","o","p","q","r","s","t","u","v","w","x","y","z"}
Upper == {"A","B","C","D","E","F","G","H","I","J","K","L","M",
          "N","O","P","Q","R","S","T","U","V","W","X","Y","Z"}
Digit == {"0","1","2","3","4","5","6","7","8","9"}

LowerSeq == <<"a","b","c","d","e","f","g","h","i","j","k","l","m",
              "n","o","p","q","r","s","t","u","v","w","x","y","z">>
UpperSeq == <<"A","B","C","D","E","F","G","H","I","J","K","L","M",
              "N","O","P","Q","R","S","T","U","V","W","X","Y","Z">>

\* A character outside ASCII, or an ASCII control character without an
\* escape, is written by its code point in hexadecimal, with four digits
\* or more: "U+00E9" is e acute, "U+212A" the Kelvin sign, "U+20000" a
\* character beyond U+FFFF
HexDigits == <<"0","1","2","3","4","5","6","7","8","9","A","B","C","D","E","F">>

RECURSIVE Hex(_, _)
Hex(n, width) ==
    IF n = 0 /\ width <= 0 THEN ""
    ELSE Hex(n \div 16, width - 1) \o HexDigits[(n % 16) + 1]

\* the letter or digit with code point n
Chr(n) ==
    IF n \in 48..57 THEN HexDigits[n - 47]
    ELSE IF n \in 65..90 THEN UpperSeq[n - 64]
    ELSE IF n \in 97..122 THEN LowerSeq[n - 96]
    ELSE "U+" \o Hex(n, 4)

\* the number a string of hexadecimal digits writes
RECURSIVE HexValue(_)
HexValue(s) ==
    IF Len(s) = 0 THEN 0
    ELSE 16 * HexValue(SubSeq(s, 1, Len(s) - 1))
         + (CHOOSE d \in 0..15 : HexDigits[d + 1] = SubSeq(s, Len(s), Len(s)))

\* the code points of a table of ranges: a range is twelve characters,
\* "first-last " with five hexadecimal digits for each code point
CodePoints(table) ==
    UNION {HexValue(SubSeq(table, 12 * k + 1, 12 * k + 5))
               .. HexValue(SubSeq(table, 12 * k + 7, 12 * k + 11))
           : k \in 0..((Len(table) \div 12) - 1)}

\* the code points of the general categories L (letters) and N (numbers)
\* of Unicode 14.0
LetterRanges ==
    "00041-0005A 00061-0007A 000AA-000AA 000B5-000B5 000BA-000BA 000C0-000D6 000D8-000F6 000F8-002C1 "
    \o "002C6-002D1 002E0-002E4 002EC-002EC 002EE-002EE 00370-00374 00376-00377 0037A-0037D 0037F-0037F "
    \o "00386-00386 00388-0038A 0038C-0038C 0038E-003A1 003A3-003F5 003F7-00481 0048A-0052F 00531-00556 "
    \o "00559-00559 00560-00588 005D0-005EA 005EF-005F2 00620-0064A 0066E-0066F 00671-006D3 006D5-006D5 "
    \o "006E5-006E6 006EE-006EF 006FA-006FC 006FF-006FF 00710-00710 00712-0072F 0074D-007A5 007B1-007B1 "
    \o "007CA-007EA 007F4-007F5 007FA-007FA 00800-00815 0081A-0081A 00824-00824 00828-00828 00840-00858 "
    \o "00860-0086A 00870-00887 00889-0088E 008A0-008C9 00904-00939 0093D-0093D 00950-00950 00958-00961 "
    \o "00971-00980 00985-0098C 0098F-00990 00993-009A8 009AA-009B0 009B2-009B2 009B6-009B9 009BD-009BD "
    \o "009CE-009CE 009DC-009DD 009DF-009E1 009F0-009F1 009FC-009FC 00A05-00A0A 00A0F-00A10 00A13-00A28 "
    \o "00A2A-00A30 00A32-00A33 00A35-00A36 00A38-00A39 00A59-00A5C 00A5E-00A5E 00A72-00A74 00A85-00A8D "
    \o "00A8F-00A91 00A93-00AA8 00AAA-00AB0 00AB2-00AB3 00AB5-00AB9 00ABD-00ABD 00AD0-00AD0 00AE0-00AE1 "
    \o "00AF9-00AF9 00B05-00B0C 00B0F-00B10 00B13-00B28 00B2A-00B30 00B32-00B33 00B35-00B39 00B3D-00B3D "
    \o "00B5C-00B5D 00B5F-00B61 00B71-00B71 00B83-00B83 00B85-00B8A 00B8E-00B90 00B92-00B95 00B99-00B9A "
    \o "00B9C-00B9C 00B9E-00B9F 00BA3-00BA4 00BA8-00BAA 00BAE-00BB9 00BD0-00BD0 00C05-00C0C 00C0E-00C10 "
    \o "00C12-00C28 00C2A-00C39 00C3D-00C3D 00C58-00C5A 00C5D-00C5D 00C60-00C61 00C80-00C80 00C85-00C8C "
    \o "00C8E-00C90 00C92-00CA8 00CAA-00CB3 00CB5-00CB9 00CBD-00CBD 00CDD-00CDE 00CE0-00CE1 00CF1-00CF2 "
    \o "00D04-00D0C 00D0E-00D10 00D12-00D3A 00D3D-00D3D 00D4E-00D4E 00D54-00D56 00D5F-00D61 00D7A-00D7F "
    \o "00D85-00D96 00D9A-00DB1 00DB3-00DBB 00DBD-00DBD 00DC0-00DC6 00E01-00E30 00E32-00E33 00E40-00E46 "
    \o "00E81-00E82 00E84-00E84 00E86-00E8A 00E8C-00EA3 00EA5-00EA5 00EA7-00EB0 00EB2-00EB3 00EBD-00EBD "
    \o "00EC0-00EC4 00EC6-00EC6 00EDC-00EDF 00F00-00F00 00F40-00F47 00F49-00F6C 00F88-00F8C 01000-0102A "
    \o "0103F-0103F 01050-01055 0105A-0105D 01061-01061 01065-01066 0106E-01070 01075-01081 0108E-0108E "
    \o "010A0-010C5 010C7-010C7 010CD-010CD 010D0-010FA 010FC-01248 0124A-0124D 01250-01256 01258-01258 "
    \o "0125A-0125D 01260-01288 0128A-0128D 01290-012B0 012B2-012B5 012B8-012BE 012C0-012C0 012C2-012C5 "
    \o "012C8-012D6 012D8-01310 01312-01315 01318-0135A 01380-0138F 013A0-013F5 013F8-013FD 01401-0166C "
    \o "0166F-0167F 01681-0169A 016A0-016EA 016F1-016F8 01700-01711 0171F-01731 01740-01751 01760-0176C "
    \o "0176E-01770 01780-017B3 017D7-017D7 017DC-017DC 01820-01878 01880-01884 01887-018A8 018AA-018AA "
    \o "018B0-018F5 01900-0191E 01950-0196D 01970-01974 01980-019AB 019B0-019C9 01A00-01A16 01A20-01A54 "
    \o "01AA7-01AA7 01B05-01B33 01B45-01B4C 01B83-01BA0 01BAE-01BAF 01BBA-01BE5 01C00-01C23 01C4D-01C4F "
    \o "01C5A-01C7D 01C80-01C88 01C90-01CBA 01CBD-01CBF 01CE9-01CEC 01CEE-01CF3 01CF5-01CF6 01CFA-01CFA "
    \o "01D00-01DBF 01E00-01F15 01F18-01F1D 01F20-01F45 01F48-01F4D 01F50-01F57 01F59-01F59 01F5B-01F5B "
    \o "01F5D-01F5D 01F5F-01F7D 01F80-01FB4 01FB6-01FBC 01FBE-01FBE 01FC2-01FC4 01FC6-01FCC 01FD0-01FD3 "
    \o "01FD6-01FDB 01FE0-01FEC 01FF2-01FF4 01FF6-01FFC 02071-02071 0207F-0207F 02090-0209C 02102-02102 "
    \o "02107-02107 0210A-02113 02115-02115 02119-0211D 02124-02124 02126-02126 02128-02128 0212A-0212D "
    \o "0212F-02139 0213C-0213F 02145-02149 0214E-0214E 02183-02184 02C00-02CE4 02CEB-02CEE 02CF2-02CF3 "
    \o "02D00-02D25 02D27-02D27 02D2D-02D2D 02D30-02D67 02D6F-02D6F 02D80-02D96 02DA0-02DA6 02DA8-02DAE "
    \o "02DB0-02DB6 02DB8-02DBE 02DC0-02DC6 02DC8-02DCE 02DD0-02DD6 02DD8-02DDE 02E2F-02E2F 03005-03006 "
    \o "03031-03035 0303B-0303C 03041-03096 0309D-0309F 030A1-030FA 030FC-030FF 03105-0312F 03131-0318E "
    \o "031A0-031BF 031F0-031FF 03400-04DBF 04E00-0A48C 0A4D0-0A4FD 0A500-0A60C 0A610-0A61F 0A62A-0A62B "
    \o "0A640-0A66E 0A67F-0A69D 0A6A0-0A6E5 0A717-0A71F 0A722-0A788 0A78B-0A7CA 0A7D0-0A7D1 0A7D3-0A7D3 "
    \o "0A7D5-0A7D9 0A7F2-0A801 0A803-0A805 0A807-0A80A 0A80C-0A822 0A840-0A873 0A882-0A8B3 0A8F2-0A8F7 "
    \o "0A8FB-0A8FB 0A8FD-0A8FE 0A90A-0A925 0A930-0A946 0A960-0A97C 0A984-0A9B2 0A9CF-0A9CF 0A9E0-0A9E4 "
    \o "0A9E6-0A9EF 0A9FA-0A9FE 0AA00-0AA28 0AA40-0AA42 0AA44-0AA4B 0AA60-0AA76 0AA7A-0AA7A 0AA7E-0AAAF "
    \o "0AAB1-0AAB1 0AAB5-0AAB6 0AAB9-0AABD 0AAC0-0AAC0 0AAC2-0AAC2 0AADB-0AADD 0AAE0-0AAEA 0AAF2-0AAF4 "
    \o "0AB01-0AB06 0AB09-0AB0E 0AB11-0AB16 0AB20-0AB26 0AB28-0AB2E 0AB30-0AB5A 0AB5C-0AB69 0AB70-0ABE2 "
    \o "0AC00-0D7A3 0D7B0-0D7C6 0D7CB-0D7FB 0F900-0FA6D 0FA70-0FAD9 0FB00-0FB06 0FB13-0FB17 0FB1D-0FB1D "
    \o "0FB1F-0FB28 0FB2A-0FB36 0FB38-0FB3C 0FB3E-0FB3E 0FB40-0FB41 0FB43-0FB44 0FB46-0FBB1 0FBD3-0FD3D "
    \o "0FD50-0FD8F 0FD92-0FDC7 0FDF0-0FDFB 0FE70-0FE74 0FE76-0FEFC 0FF21-0FF3A 0FF41-0FF5A 0FF66-0FFBE "
    \o "0FFC2-0FFC7 0FFCA-0FFCF 0FFD2-0FFD7 0FFDA-0FFDC 10000-1000B 1000D-10026 10028-1003A 1003C-1003D "
    \o "1003F-1004D 10050-1005D 10080-100FA 10280-1029C 102A0-102D0 10300-1031F 1032D-10340 10342-10349 "
    \o "10350-10375 10380-1039D 103A0-103C3 103C8-103CF 10400-1049D 104B0-104D3 104D8-104FB 10500-10527 "
    \o "10530-10563 10570-1057A 1057C-1058A 1058C-10592 10594-10595 10597-105A1 105A3-105B1 105B3-105B9 "
    \o "105BB-105BC 10600-10736 10740-10755 10760-10767 10780-10785 10787-107B0 107B2-107BA 10800-10805 "
    \o "10808-10808 1080A-10835 10837-10838 1083C-1083C 1083F-10855 10860-10876 10880-1089E 108E0-108F2 "
    \o "108F4-108F5 10900-10915 10920-10939 10980-109B7 109BE-109BF 10A00-10A00 10A10-10A13 10A15-10A17 "
    \o "10A19-10A35 10A60-10A7C 10A80-10A9C 10AC0-10AC7 10AC9-10AE4 10B00-10B35 10B40-10B55 10B60-10B72 "
    \o "10B80-10B91 10C00-10C48 10C80-10CB2 10CC0-10CF2 10D00-10D23 10E80-10EA9 10EB0-10EB1 10F00-10F1C "
    \o "10F27-10F27 10F30-10F45 10F70-10F81 10FB0-10FC4 10FE0-10FF6 11003-11037 11071-11072 11075-11075 "
    \o "11083-110AF 110D0-110E8 11103-11126 11144-11144 11147-11147 11150-11172 11176-11176 11183-111B2 "
    \o "111C1-111C4 111DA-111DA 111DC-111DC 11200-11211 11213-1122B 11280-11286 11288-11288 1128A-1128D "
    \o "1128F-1129D 1129F-112A8 112B0-112DE 11305-1130C 1130F-11310 11313-11328 1132A-11330 11332-11333 "
    \o "11335-11339 1133D-1133D 11350-11350 1135D-11361 11400-11434 11447-1144A 1145F-11461 11480-114AF "
    \o "114C4-114C5 114C7-114C7 11580-115AE 115D8-115DB 11600-1162F 11644-11644 11680-116AA 116B8-116B8 "
    \o "11700-1171A 11740-11746 11800-1182B 118A0-118DF 118FF-11906 11909-11909 1190C-11913 11915-11916 "
    \o "11918-1192F 1193F-1193F 11941-11941 119A0-119A7 119AA-119D0 119E1-119E1 119E3-119E3 11A00-11A00 "
    \o "11A0B-11A32 11A3A-11A3A 11A50-11A50 11A5C-11A89 11A9D-11A9D 11AB0-11AF8 11C00-11C08 11C0A-11C2E "
    \o "11C40-11C40 11C72-11C8F 11D00-11D06 11D08-11D09 11D0B-11D30 11D46-11D46 11D60-11D65 11D67-11D68 "
    \o "11D6A-11D89 11D98-11D98 11EE0-11EF2 11FB0-11FB0 12000-12399 12480-12543 12F90-12FF0 13000-1342E "
    \o "14400-14646 16800-16A38 16A40-16A5E 16A70-16ABE 16AD0-16AED 16B00-16B2F 16B40-16B43 16B63-16B77 "
    \o "16B7D-16B8F 16E40-16E7F 16F00-16F4A 16F50-16F50 16F93-16F9F 16FE0-16FE1 16FE3-16FE3 17000-187F7 "
    \o "18800-18CD5 18D00-18D08 1AFF0-1AFF3 1AFF5-1AFFB 1AFFD-1AFFE 1B000-1B122 1B150-1B152 1B164-1B167 "
    \o "1B170-1B2FB 1BC00-1BC6A 1BC70-1BC7C 1BC80-1BC88 1BC90-1BC99 1D400-1D454 1D456-1D49C 1D49E-1D49F "
    \o "1D4A2-1D4A2 1D4A5-1D4A6 1D4A9-1D4AC 1D4AE-1D4B9 1D4BB-1D4BB 1D4BD-1D4C3 1D4C5-1D505 1D507-1D50A "
    \o "1D50D-1D514 1D516-1D51C 1D51E-1D539 1D53B-1D53E 1D540-1D544 1D546-1D546 1D54A-1D550 1D552-1D6A5 "
    \o "1D6A8-1D6C0 1D6C2-1D6DA 1D6DC-1D6FA 1D6FC-1D714 1D716-1D734 1D736-1D74E 1D750-1D76E 1D770-1D788 "
    \o "1D78A-1D7A8 1D7AA-1D7C2 1D7C4-1D7CB 1DF00-1DF1E 1E100-1E12C 1E137-1E13D 1E14E-1E14E 1E290-1E2AD "
    \o "1E2C0-1E2EB 1E7E0-1E7E6 1E7E8-1E7EB 1E7ED-1E7EE 1E7F0-1E7FE 1E800-1E8C4 1E900-1E943 1E94B-1E94B "
    \o "1EE00-1EE03 1EE05-1EE1F 1EE21-1EE22 1EE24-1EE24 1EE27-1EE27 1EE29-1EE32 1EE34-1EE37 1EE39-1EE39 "
    \o "1EE3B-1EE3B 1EE42-1EE42 1EE47-1EE47 1EE49-1EE49 1EE4B-1EE4B 1EE4D-1EE4F 1EE51-1EE52 1EE54-1EE54 "
    \o "1EE57-1EE57 1EE59-1EE59 1EE5B-1EE5B 1EE5D-1EE5D 1EE5F-1EE5F 1EE61-1EE62 1EE64-1EE64 1EE67-1EE6A "
    \o "1EE6C-1EE72 1EE74-1EE77 1EE79-1EE7C 1EE7E-1EE7E 1EE80-1EE89 1EE8B-1EE9B 1EEA1-1EEA3 1EEA5-1EEA9 "
    \o "1EEAB-1EEBB 20000-2A6DF 2A700-2B738 2B740-2B81D 2B820-2CEA1 2CEB0-2EBE0 2F800-2FA1D 30000-3134A "

NumberRanges ==
    "00030-00039 000B2-000B3 000B9-000B9 000BC-000BE 00660-00669 006F0-006F9 007C0-007C9 00966-0096F "
    \o "009E6-009EF 009F4-009F9 00A66-00A6F 00AE6-00AEF 00B66-00B6F 00B72-00B77 00BE6-00BF2 00C66-00C6F "
    \o "00C78-00C7E 00CE6-00CEF 00D58-00D5E 00D66-00D78 00DE6-00DEF 00E50-00E59 00ED0-00ED9 00F20-00F33 "
    \o "01040-01049 01090-01099 01369-0137C 016EE-016F0 017E0-017E9 017F0-017F9 01810-01819 01946-0194F "
    \o "019D0-019DA 01A80-01A89 01A90-01A99 01B50-01B59 01BB0-01BB9 01C40-01C49 01C50-01C59 02070-02070 "
    \o "02074-02079 02080-02089 02150-02182 02185-02189 02460-0249B 024EA-024FF 02776-02793 02CFD-02CFD "
    \o "03007-03007 03021-03029 03038-0303A 03192-03195 03220-03229 03248-0324F 03251-0325F 03280-03289 "
    \o "032B1-032BF 0A620-0A629 0A6E6-0A6EF 0A830-0A835 0A8D0-0A8D9 0A900-0A909 0A9D0-0A9D9 0A9F0-0A9F9 "
    \o "0AA50-0AA59 0ABF0-0ABF9 0FF10-0FF19 10107-10133 10140-10178 1018A-1018B 102E1-102FB 10320-10323 "
    \o "10341-10341 1034A-1034A 103D1-103D5 104A0-104A9 10858-1085F 10879-1087F 108A7-108AF 108FB-108FF "
    \o "10916-1091B 109BC-109BD 109C0-109CF 109D2-109FF 10A40-10A48 10A7D-10A7E 10A9D-10A9F 10AEB-10AEF "
    \o "10B58-10B5F 10B78-10B7F 10BA9-10BAF 10CFA-10CFF 10D30-10D39 10E60-10E7E 10F1D-10F26 10F51-10F54 "
    \o "10FC5-10FCB 11052-1106F 110F0-110F9 11136-1113F 111D0-111D9 111E1-111F4 112F0-112F9 11450-11459 "
    \o "114D0-114D9 11650-11659 116C0-116C9 11730-1173B 118E0-118F2 11950-11959 11C50-11C6C 11D50-11D59 "
    \o "11DA0-11DA9 11FC0-11FD4 12400-1246E 16A60-16A69 16AC0-16AC9 16B50-16B59 16B5B-16B61 16E80-16E96 "
    \o "1D2E0-1D2F3 1D360-1D378 1D7CE-1D7FF 1E140-1E149 1E2F0-1E2F9 1E8C7-1E8CF 1E950-1E959 1EC71-1ECAB "
    \o "1ECAD-1ECAF 1ECB1-1ECB4 1ED01-1ED2D 1ED2F-1ED3D 1F100-1F10C 1FBF0-1FBF9 "

Letters == {Chr(n) : n \in CodePoints(LetterRanges)}
Numbers == {Chr(n) : n \in CodePoints(NumberRanges)}

\* the characters str.isspace() holds of: \s of a str pattern, and what
\* str.strip() takes off
Space ==
    {" ", "\t", "\n", "\r", "\f", "U+000B", "U+001C", "U+001D", "U+001E", "U+001F",
     "U+0085", "U+00A0", "U+1680", "U+2000", "U+2001", "U+2002", "U+2003",
     "U+2004", "U+2005", "U+2006", "U+2007", "U+2008", "U+2009", "U+200A",
     "U+2028", "U+2029", "U+202F", "U+205F", "U+3000"}
Terminator == {".", "!", "?"}

IsSpace(c) == c \in Space
\* \p{L} and \p{N} of the pre-tokenisation pattern
IsLetter(c) == c \in Letters
IsNumber(c) == c \in Numbers
\* \w of a str pattern: letters, digits and the underscore, of any script
IsWord(c) == IsLetter(c) \/ IsNumber(c) \/ c = "_"

MinOf(a, b) == IF a <= b THEN a ELSE b

\* text[:n]
Take(t, n) == SubSeq(t, 1, MinOf(n, Len(t)))

\* the concatenation of the sequences ps[lo..hi], by halving
RECURSIVE FlatRange(_, _, _)
FlatRange(ps, lo, hi) ==
    IF lo > hi THEN <<>>
    ELSE IF lo = hi THEN ps[lo]
    ELSE LET mid == (lo + hi) \div 2
         IN  FlatRange(ps, lo, mid) \o FlatRange(ps, mid + 1, hi)

Flatten(ps) == FlatRange(ps, 1, Len(ps))

\* the elements of a finite set of integers in increasing order
SortedSeq(S) ==
    [i \in 1..Cardinality(S) |->
        CHOOSE x \in S : Cardinality({y \in S : y < x}) = i - 1]

\* index of the first / last character that is not whitespace (0: none)
RECURSIVE FirstNonSpace(_, _)
FirstNonSpace(t, i) ==
    IF i > Len(t) THEN 0
    ELSE IF ~IsSpace(t[i]) THEN i ELSE FirstNonSpace(t, i + 1)

RECURSIVE LastNonSpace(_, _)
LastNonSpace(t, i) ==
    IF i < 1 THEN 0
    ELSE IF ~IsSpace(t[i]) THEN i ELSE LastNonSpace(t, i - 1)

\* str.strip()
Strip(t) ==
    LET a == FirstNonSpace(t, 1)
    IN  IF a = 0 THEN <<>> ELSE SubSeq(t, a, LastNonSpace(t, Len(t)))

-----------------------------------------------------------------------------
(* The tokenizer *)

BOS == <<"<", "s", ">">>
EOS == <<"<", "/", "s", ">">>

\* the two special tokens encode() puts around the content tokens
NumSpecial == 2

StartsWithAt(t, i, w) ==
    /\ i >= 1
    /\ i + Len(w) - 1 <= Len(t)
    /\ SubSeq(t, i, i + Len(w) - 1) = w

\* length of the special token written at position i of t (0: none)
SpecialAt(t, i) ==
    IF i < 1 \/ i > Len(t) \/ t[i] # "<" THEN 0
    ELSE IF StartsWithAt(t, i, BOS) THEN Len(BOS)
    ELSE IF StartsWithAt(t, i, EOS) THEN Len(EOS)
    ELSE 0

InSpecial(t, i) ==
    /\ t[i] \in {"<", "/", "s", ">"}
    /\ \E j \in (i - 3)..i : SpecialAt(t, j) > i - j

\* \s of the pre-tokenisation pattern: the characters of the Unicode
\* property White_Space, which the four separators U+001C-U+001F lack
TokenSpace == Space \ {"U+001C", "U+001D", "U+001E", "U+001F"}

\* "L" letter, "N" digit, "S" whitespace, "P" any other character,
\* "X" part of a special token, "E" outside the text
Cls(t, i) ==
    IF i < 1 \/ i > Len(t) THEN "E"
    ELSE IF InSpecial(t, i) THEN "X"
    ELSE IF IsLetter(t[i]) THEN "L"
    ELSE IF IsNumber(t[i]) THEN "N"
    ELSE IF t[i] \in TokenSpace THEN "S"
    ELSE "P"

\* the space that " ?" of the pattern takes in front of a token
LeadSpaceAt(t, i) == Cls(t, i) = "S" /\ t[i] = " "

\* length of the match of 's|'t|'re|'ve|'m|'ll|'d at position i (0: none)
ContractionAt(t, i) ==
    IF Cls(t, i) # "P" \/ t[i] # "'" THEN 0
    ELSE IF Cls(t, i + 1) = "L" /\ t[i + 1] \in {"s", "t", "m", "d"} THEN 2
    ELSE IF /\ Cls(t, i + 1) = "L" /\ Cls(t, i + 2) = "L"
            /\ <<t[i + 1], t[i + 2]>> \in {<<"r", "e">>, <<"v", "e">>, <<"l", "l">>}
         THEN 3
    ELSE 0

\* a contraction is matched at position i: the apostrophe is where a match
\* begins, which it is not after a character of its own class or after
\* the space in front of a token, both of which take it into their token
ContractionStart(t, i) ==
    /\ ContractionAt(t, i) > 0
    /\ Cls(t, i - 1) # "P"
    /\ ~LeadSpaceAt(t, i - 1)

\* position i is one of the letters of a contraction
InContraction(t, i) ==
    \E j \in {i - 2, i - 1} : ContractionStart(t, j) /\ j + ContractionAt(t, j) > i

\* position i is the first after a contraction
AfterContraction(t, i) ==
    \E j \in {i - 3, i - 2} : ContractionStart(t, j) /\ j + ContractionAt(t, j) = i

\* a token begins at position i: the pre-tokenisation pattern
\*   's|'t|'re|'ve|'m|'ll|'d| ?\p{L}+| ?\p{N}+| ?[^\s\p{L}\p{N}]+|\s+(?!\S)|\s+
\* applied to each stretch of text between special tokens, a token for
\* each match.  A run of whitespace before a character that is not
\* whitespace gives up its last character, which is a match of its own
\* or, when it is " ", the front of the next token
TokenStart(t, i) ==
    LET c == Cls(t, i)
        p == Cls(t, i - 1)
        n == Cls(t, i + 1)
    IN  CASE c = "X" -> SpecialAt(t, i) > 0
          [] c = "S" -> IF n \in {"L", "N", "P"} THEN TRUE ELSE p # "S"
          [] OTHER   -> IF InContraction(t, i) THEN FALSE
                        ELSE IF AfterContraction(t, i) THEN TRUE
                        ELSE p # c /\ ~LeadSpaceAt(t, i - 1)

TokenStarts(t, lo, hi) == {i \in lo..hi : TokenStart(t, i)}

\* the number of content tokens of t
TokenCount(t) == Cardinality(TokenStarts(t, 1, Len(t)))

\* len(tokenizer.encode(text, truncation=False))
EncodeLen(t) == NumSpecial + TokenCount(t)

\* the least p in lo..hi with k token starts in 1..p (hi + 1: none)
RECURSIVE KthStart(_, _, _, _)
KthStart(t, k, lo, hi) ==
    IF lo > hi THEN hi + 1
    ELSE LET mid == (lo + hi) \div 2
         IN  IF Cardinality(TokenStarts(t, 1, mid)) >= k
             THEN IF lo = mid THEN mid ELSE KthStart(t, k, lo, mid)
             ELSE KthStart(t, k, mid + 1, hi)

\* the text of the first k content tokens of t
FirstTokens(t, k) ==
    IF TokenCount(t) <= k THEN t
    ELSE SubSeq(t, 1, KthStart(t, k + 1, 1, Len(t)) - 1)

\* str.replace(pat, rep) on the characters of t from index lo on: the
\* matches are taken from the left, and a match begins after the one
\* before it ends
RECURSIVE ReplaceFrom(_, _, _, _)
ReplaceFrom(t, pat, rep, lo) ==
    LET starts == {i \in lo..(Len(t) - Len(pat) + 1) :
                     SubSeq(t, i, i + Len(pat) - 1) = pat}
    IN  IF starts = {} THEN SubSeq(t, lo, Len(t))
        ELSE LET i == CHOOSE x \in starts : \A y \in starts : x <= y
             IN  SubSeq(t, lo, i - 1) \o rep
                   \o ReplaceFrom(t, pat, rep, i + Len(pat))

Replace(t, pat, rep) == ReplaceFrom(t, pat, rep, 1)

\* the replacements of clean_up_tokenization, in the order it makes them
CleanUpRules ==
    << << <<" ", ".">>, <<".">> >>,
       << <<" ", "?">>, <<"?">> >>,
       << <<" ", "!">>, <<"!">> >>,
       << <<" ", ",">>, <<",">> >>,
       << <<" ", "'", " ">>, <<"'">> >>,
       << <<" ", "n", "'", "t">>, <<"n", "'", "t">> >>,
       << <<" ", "'", "m">>, <<"'", "m">> >>,
       << <<" ", "'", "s">>, <<"'", "s">> >>,
       << <<" ", "'", "v", "e">>, <<"'", "v", "e">> >>,
       << <<" ", "'", "r", "e">>, <<"'", "r", "e">> >> >>

\* t after the first k replacements
RECURSIVE CleanUpTo(_, _)
CleanUpTo(t, k) ==
    IF k = 0 THEN t
    ELSE Replace(CleanUpTo(t, k - 1), CleanUpRules[k][1], CleanUpRules[k][2])

\* decode()'s clean_up_tokenization_spaces: " ." -> ".", " ?" -> "?",
\* " !" -> "!", " ," -> ",", " ' " -> "'", " n't" -> "n't", " 'm" -> "'m",
\* " 's" -> "'s", " 've" -> "'ve", " 're" -> "'re", one after the other
CleanUpSpaces(t) == CleanUpTo(t, Len(CleanUpRules))

\* tokenizer.decode(tokenizer.encode(sentence, max_length=m, truncation=True)):
\* at most m - 2 content tokens are kept, and decode writes the special
\* tokens out (skip_special_tokens is False)
Truncated(sentence, m) ==
    BOS \o CleanUpSpaces(FirstTokens(sentence, m - NumSpecial)) \o EOS

-----------------------------------------------------------------------------
(* chunk_text *)

\* text[:2000], the fallback of chunk_text
FallbackLen == 2000

\* re.split(r'[.!?]+', text)
Split(t) ==
    LET T  == {i \in 1..Len(t) : t[i] \in Terminator}
        rs == SortedSeq({i \in T : i = 1 \/ t[i - 1] \notin Terminator})
        re == SortedSeq({i \in T : i = Len(t) \/ t[i + 1] \notin Terminator})
        k  == Len(rs)
    IN  [j \in 1..(k + 1) |->
            SubSeq(t, IF j = 1 THEN 1 ELSE re[j - 1] + 1,
                      IF j = k + 1 THEN Len(t) ELSE rs[j] - 1)]

\* a variant of WithinLimit: the limit itself is taken to be over the limit
WithinLimitStrict(n, max_length) == n < max_length

\* len(tokens) <= max_length
WithinLimit(n, max_length) == n <= max_length

\* a variant of ChunkStep: the truncated sentence is not appended
ChunkStepDropsTruncated(chunks, current_chunk, sentence, max_length) ==
    LET test_chunk == current_chunk \o sentence \o <<".", " ">>
    IN  IF EncodeLen(test_chunk) <= max_length
        THEN <<chunks, test_chunk>>
        ELSE IF current_chunk # <<>>
             THEN <<Append(chunks, Strip(current_chunk)), sentence \o <<".", " ">>>>
             ELSE <<chunks, current_chunk>>

\* one pass of the loop over the sentences: <<chunks, current_chunk>>
ChunkStep(chunks, current_chunk, sentence, max_length) ==
    LET test_chunk == current_chunk \o sentence \o <<".", " ">>
    IN  IF WithinLimit(EncodeLen(test_chunk), max_length)
        THEN <<chunks, test_chunk>>
        ELSE IF current_chunk # <<>>
             THEN <<Append(chunks, Strip(current_chunk)), sentence \o <<".", " ">>>>
             ELSE <<Append(chunks, Truncated(sentence, max_length)), current_chunk>>

RECURSIVE ChunkLoop(_, _, _, _, _)
ChunkLoop(sentences, i, chunks, current_chunk, max_length) ==
    IF i > Len(sentences) THEN <<chunks, current_chunk>>
    ELSE LET r == ChunkStep(chunks, current_chunk, sentences[i], max_length)
         IN  ChunkLoop(sentences, i + 1, r[1], r[2], max_length)

\* if current_chunk: chunks.append(current_chunk.strip())
FlushChunk(chunks, current_chunk) ==
    IF current_chunk # <<>> THEN Append(chunks, Strip(current_chunk)) ELSE chunks

\* chunk_text(text, max_length); tokenizer is FALSE when load_model() has
\* no tokenizer to give, and encode() on None raises into the fallback
chunk_text(text, max_length, tokenizer) ==
    IF ~tokenizer THEN <<Take(text, FallbackLen)>>
    ELSE IF WithinLimit(EncodeLen(text), max_length) THEN <<text>>
    ELSE LET r == ChunkLoop(Split(text), 1, <<>>, <<>>, max_length)
         IN  FlushChunk(r[1], r[2])

-----------------------------------------------------------------------------
(* The options of the three select boxes of the sidebar (app.py 50-66) *)

\* "Short (1-2 sentences)" (21 characters)
ShortLabel ==
    <<"S", "h", "o", "r", "t", " ", "(", "1", "-", "2", " ", "s", "e", "n",
      "t", "e", "n", "c", "e", "s", ")">>

\* "Medium (3-5 sentences)" (22 characters)
MediumLabel ==
    <<"M", "e", "d", "i", "u", "m", " ", "(", "3", "-", "5", " ", "s", "e",
      "n", "t", "e", "n", "c", "e", "s", ")">>

\* "Long (6+ sentences)" (19 characters)
LongLabel ==
    <<"L", "o", "n", "g", " ", "(", "6", "+", " ", "s", "e", "n", "t", "e",
      "n", "c", "e", "s", ")">>

\* a length option is a text: get_length_params looks for words in it
LengthOptions == <<ShortLabel, MediumLabel, LongLabel>>
StyleOptions == <<"Bullet Points", "Paragraph", "Executive Summary">>
FocusOptions == <<"General", "Key Points", "Action Items", "Decisions Made">>

Range(f) == {f[i] : i \in DOMAIN f}

Configs == [length : Range(LengthOptions), style : Range(StyleOptions),
            focus : Range(FocusOptions)]

\* word in text (substring test)
Contains(t, w) == \E i \in 1..(Len(t) - Len(w) + 1) : SubSeq(t, i, i + Len(w) - 1) = w

\* a variant of get_length_params: the bounds of Short and Long are swapped
get_length_params_swapped(length_setting) ==
    IF Contains(length_setting, <<"S", "h", "o", "r", "t">>) THEN <<100, 300>>
    ELSE IF Contains(length_setting, <<"M", "e", "d", "i", "u", "m">>) THEN <<50, 150>>
    ELSE IF Contains(length_setting, <<"L", "o", "n", "g">>) THEN <<10, 50>>
    ELSE <<50, 150>>

\* get_length_params(length_setting): <<min_length, max_length>>
get_length_params(length_setting) ==
    IF Contains(length_setting, <<"S", "h", "o", "r", "t">>) THEN <<10, 50>>
    ELSE IF Contains(length_setting, <<"M", "e", "d", "i", "u", "m">>) THEN <<50, 150>>
    ELSE IF Contains(length_setting, <<"L", "o", "n", "g">>) THEN <<100, 300>>
    ELSE <<50, 150>>

-----------------------------------------------------------------------------
(* clean_text *)

\* re.sub(r'\s+', ' ', text)
CollapseSpaces(t) ==
    Flatten([i \in 1..Len(t) |->
        IF IsSpace(t[i])
        THEN (IF i > 1 /\ IsSpace(t[i - 1]) THEN <<>> ELSE <<" ">>)
        ELSE <<t[i]>>])

\* re.sub(r'[^\w\s\.\,\!\?\;]', '', text)
RemoveSpecial(t) ==
    Flatten([i \in 1..Len(t) |->
        IF IsWord(t[i]) \/ IsSpace(t[i]) \/ t[i] \in {".", ",", "!", "?", ";"}
        THEN <<t[i]>> ELSE <<>>])

\* re.sub(r'([a-z])([A-Z])', r'\1. \2', text)
SplitCamel(t) ==
    Flatten([i \in 1..Len(t) |->
        IF i < Len(t) /\ t[i] \in Lower /\ t[i + 1] \in Upper
        THEN <<t[i], ".", " ">> ELSE <<t[i]>>])

clean_text(text) == Strip(SplitCamel(RemoveSpecial(CollapseSpaces(text))))

-----------------------------------------------------------------------------
(* Post-processing of the combined summary *)

\* the bullet character U+2022, one character of a text
Bullet == "U+2022"

\* sep.join(parts)
Join(parts, sep) ==
    Flatten([i \in 1..Len(parts) |-> IF i = 1 THEN parts[i] ELSE sep \o parts[i]])

\* len(sentence) > 10
BulletMinLen == 10

KeepAsBullet(sentence) == sentence # <<>> /\ Len(sentence) > BulletMinLen

Bulleted(items) == [i \in 1..Len(items) |-> <<Bullet, " ">> \o items[i]]

\* format_as_bullets(text)
format_as_bullets(text) ==
    LET sentences == Split(text)
        stripped  == [i \in 1..Len(sentences) |-> Strip(sentences[i])]
    IN  Join(Bulleted(SelectSeq(stripped, KeepAsBullet)), <<"\n">>)

\* "**Executive Summary:**\n\n" (24 characters)
ExecHeader ==
    <<"*", "*", "E", "x", "e", "c", "u", "t", "i", "v", "e", " ", "S", "u",
      "m", "m", "a", "r", "y", ":", "*", "*", "\n", "\n">>

\* format_as_executive_summary(text)
format_as_executive_summary(text) == ExecHeader \o text

\* the lower-case letter re.IGNORECASE takes c for: besides A-Z, the
\* Kelvin sign is k, long s is s, I with dot and dotless i are i
ToLower(c) ==
    IF c \in Upper THEN LowerSeq[CHOOSE i \in 1..Len(UpperSeq) : UpperSeq[i] = c]
    ELSE CASE c = "U+212A" -> "k"
           [] c = "U+017F" -> "s"
           [] c \in {"U+0130", "U+0131"} -> "i"
           [] c = "U+00C9" -> "U+00E9"
           [] OTHER -> c
ToUpper(c) == IF c \in Lower THEN UpperSeq[CHOOSE i \in 1..Len(LowerSeq) : LowerSeq[i] = c] ELSE c

\* key_words of emphasize_key_points
key_words ==
    << <<"i", "m", "p", "o", "r", "t", "a", "n", "t">>,
       <<"k", "e", "y">>,
       <<"m", "a", "i", "n">>,
       <<"p", "r", "i", "m", "a", "r", "y">>,
       <<"s", "i", "g", "n", "i", "f", "i", "c", "a", "n", "t">>,
       <<"c", "r", "u", "c", "i", "a", "l">> >>

\* \bword\b matches at position i, ignoring case
WordAt(t, i, word) ==
    /\ i + Len(word) - 1 <= Len(t)
    /\ \A k \in 1..Len(word) : ToLower(t[i + k - 1]) = word[k]
    /\ (i = 1 \/ ~IsWord(t[i - 1]))
    /\ (i + Len(word) > Len(t) \/ ~IsWord(t[i + Len(word)]))

\* emphasize_key_points(text): every match is replaced by the key word as
\* it is written in key_words, between two pairs of asterisks
emphasize_key_points(text) ==
    Flatten([i \in 1..Len(text) |->
        IF \E w \in Range(key_words) : WordAt(text, i, w)
        THEN LET w == CHOOSE w \in Range(key_words) : WordAt(text, i, w)
             IN  <<"*", "*">> \o w \o <<"*", "*">>
        ELSE IF \E w \in Range(key_words) :
                   \E j \in (i - Len(w) + 1)..(i - 1) : j >= 1 /\ WordAt(text, j, w)
             THEN <<>>
             ELSE <<text[i]>>])

\* the number of characters of \w at positions i, i+1, ...
RECURSIVE WordRun(_, _)
WordRun(t, i) == IF i <= Len(t) /\ IsWord(t[i]) THEN 1 + WordRun(t, i + 1) ELSE 0

\* length of the match of a pattern "[Xx]rest \w+" at position i (0: none);
\* lead is the pattern's text in lower case
PatternAt(t, i, lead) ==
    IF /\ i + Len(lead) <= Len(t)
       /\ t[i] \in {lead[1], ToUpper(lead[1])}
       /\ SubSeq(t, i + 1, i + Len(lead) - 1) = Tail(lead)
       /\ IsWord(t[i + Len(lead)])
    THEN Len(lead) + WordRun(t, i + Len(lead))
    ELSE 0

\* re.findall(pattern, text) from position i on: the leftmost match, then
\* the matches after its end
RECURSIVE FindAll(_, _, _)
FindAll(t, lead, i) ==
    LET hits == {j \in i..Len(t) : PatternAt(t, j, lead) > 0}
    IN  IF hits = {} THEN <<>>
        ELSE LET j == CHOOSE x \in hits : \A y \in hits : x <= y
                 n == PatternAt(t, j, lead)
             IN  <<SubSeq(t, j, j + n - 1)>> \o FindAll(t, lead, j + n)

\* the matches of the patterns, pattern by pattern
AllMatches(t, patterns) ==
    Flatten([p \in 1..Len(patterns) |-> FindAll(t, patterns[p], 1)])

action_patterns ==
    << <<"n", "e", "e", "d", " ", "t", "o", " ">>,
       <<"s", "h", "o", "u", "l", "d", " ">>,
       <<"w", "i", "l", "l", " ">>,
       <<"m", "u", "s", "t", " ">>,
       <<"p", "l", "a", "n", " ", "t", "o", " ">> >>

decision_patterns ==
    << <<"d", "e", "c", "i", "d", "e", "d", " ", "t", "o", " ">>,
       <<"a", "g", "r", "e", "e", "d", " ", "t", "o", " ">>,
       <<"c", "h", "o", "s", "e", " ", "t", "o", " ">>,
       <<"r", "e", "s", "o", "l", "v", "e", "d", " ", "t", "o", " ">> >>

\* "**Action Items:**\n" (18 characters)
ActionHeader ==
    <<"*", "*", "A", "c", "t", "i", "o", "n", " ", "I", "t", "e", "m", "s",
      ":", "*", "*", "\n">>

\* "**Decisions Made:**\n" (20 characters)
DecisionHeader ==
    <<"*", "*", "D", "e", "c", "i", "s", "i", "o", "n", "s", " ", "M", "a",
      "d", "e", ":", "*", "*", "\n">>

\* a variant of extract_decisions: the text stays below the list
extract_decisions_keeps_text(text) ==
    LET decisions == AllMatches(text, decision_patterns)
    IN  IF decisions # <<>>
        THEN DecisionHeader \o Join(Bulleted(decisions), <<"\n">>) \o <<"\n">> \o text
        ELSE text

\* extract_action_items(text)
extract_action_items(text) ==
    LET actions == AllMatches(text, action_patterns)
    IN  IF actions # <<>> THEN ActionHeader \o Join(Bulleted(actions), <<"\n">>)
        ELSE text

\* extract_decisions(text)
extract_decisions(text) ==
    LET decisions == AllMatches(text, decision_patterns)
    IN  IF decisions # <<>> THEN DecisionHeader \o Join(Bulleted(decisions), <<"\n">>)
        ELSE text

apply_style(summary, style) ==
    IF style = "Bullet Points" THEN format_as_bullets(summary)
    ELSE IF style = "Executive Summary" THEN format_as_executive_summary(summary)
    ELSE summary

apply_focus(summary, focus) ==
    IF focus = "Key Points" THEN emphasize_key_points(summary)
    ELSE IF focus = "Action Items" THEN extract_action_items(summary)
    ELSE IF focus = "Decisions Made" THEN extract_decisions(summary)
    ELSE summary

\* a variant of post_process_summary: the focus transform comes first
post_process_summary_focus_first(summary, config) ==
    apply_style(apply_focus(summary, config.focus), config.style)

\* post_process_summary(summary, config)
post_process_summary(summary, config) ==
    apply_focus(apply_style(summary, config.style), config.focus)

-----------------------------------------------------------------------------
(* The texts of the specifications *)

\* the default max_length of chunk_text
DefaultMaxLength == 1024

\* len(text.strip()) < 50
MinTextLen == 50

\* "The team met today.  We need to fix a mainBug: this is key!" (59 characters)
MemoText ==
    <<"T", "h", "e", " ", "t", "e", "a", "m", " ", "m", "e", "t", " ", "t",
      "o", "d", "a", "y", ".", " ", " ", "W", "e", " ", "n", "e", "e", "d",
      " ", "t", "o", " ", "f", "i", "x", " ", "a", " ", "m", "a", "i", "n",
      "B", "u", "g", ":", " ", "t", "h", "i", "s", " ", "i", "s", " ", "k",
      "e", "y", "!">>

\* "The main goal is key. We need to ship it." (41 characters)
SummaryA ==
    <<"T", "h", "e", " ", "m", "a", "i", "n", " ", "g", "o", "a", "l", " ",
      "i", "s", " ", "k", "e", "y", ".", " ", "W", "e", " ", "n", "e", "e",
      "d", " ", "t", "o", " ", "s", "h", "i", "p", " ", "i", "t", ".">>

\* "They agreed to meet Monday. Fine." (33 characters)
SummaryB ==
    <<"T", "h", "e", "y", " ", "a", "g", "r", "e", "e", "d", " ", "t", "o",
      " ", "m", "e", "e", "t", " ", "M", "o", "n", "d", "a", "y", ".", " ",
      "F", "i", "n", "e", ".">>

\* n copies of the word w, a space between two of them
Words(w, n) ==
    [i \in 1..(n * (Len(w) + 1) - 1) |->
        LET p == (i - 1) % (Len(w) + 1) IN IF p = Len(w) THEN " " ELSE w[p + 1]]

\* the number of words of a sentence of LongText: two sentences are more
\* than DefaultMaxLength tokens
SentenceWords == 520

\* three sentences, each within the token limit, no two of them together
LongText ==
    Words(<<"a">>, SentenceWords) \o <<".", " ">> \o
    Words(<<"b">>, SentenceWords) \o <<".", " ">> \o
    Words(<<"c">>, SentenceWords) \o <<".">>

\* MinTextLen - 1 characters between blanks: a no-break space, a line
\* feed, a carriage return
PaddedText == <<"U+00A0", "\n">> \o Take(MemoText, MinTextLen - 1) \o <<"\r">>

\* "caf<e acute><unit separator><arabic-indic 3>: " and MemoText
AccentText ==
    <<"c", "a", "f", "U+00E9", "U+001F", "U+0663", ":", " ">> \o MemoText

\* "No speech detected in the audio file." (37 characters)
NoSpeechMsg ==
    <<"N", "o", " ", "s", "p", "e", "e", "c", "h", " ", "d", "e", "t", "e",
      "c", "t", "e", "d", " ", "i", "n", " ", "t", "h", "e", " ", "a", "u",
      "d", "i", "o", " ", "f", "i", "l", "e", ".">>

\* "Transcription failed: " (22 characters)
TranscriptionFailedPrefix ==
    <<"T", "r", "a", "n", "s", "c", "r", "i", "p", "t", "i", "o", "n", " ",
      "f", "a", "i", "l", "e", "d", ":", " ">>

\* "Audio file not found: temp/processed_audio.wav" (46 characters)
FileNotFoundError ==
    <<"A", "u", "d", "i", "o", " ", "f", "i", "l", "e", " ", "n", "o", "t",
      " ", "f", "o", "u", "n", "d", ":", " ", "t", "e", "m", "p", "/", "p",
      "r", "o", "c", "e", "s", "s", "e", "d", "_", "a", "u", "d", "i", "o",
      ".", "w", "a", "v">>

\* "Failed to load Whisper model" (28 characters)
WhisperLoadError ==
    <<"F", "a", "i", "l", "e", "d", " ", "t", "o", " ", "l", "o", "a", "d",
      " ", "W", "h", "i", "s", "p", "e", "r", " ", "m", "o", "d", "e", "l">>

\* "CUDA out of memory" (18 characters)
WhisperRunError ==
    <<"C", "U", "D", "A", " ", "o", "u", "t", " ", "o", "f", " ", "m", "e",
      "m", "o", "r", "y">>

\* "Failed to load audio": what the speech model raises when it cannot
\* read the file (the text goes on with the output of the decoder)
WhisperAudioError ==
    <<"F", "a", "i", "l", "e", "d", " ", "t", "o", " ", "l", "o", "a", "d",
      " ", "a", "u", "d", "i", "o">>

\* what self.model.transcribe() of line 54 does: it returns, or it raises
\* an exception e and error is str(e)
ModelReturns == [ok |-> TRUE, error |-> <<>>]
ModelRaises(error) == [ok |-> FALSE, error |-> error]
ModelRuns == {ModelReturns, ModelRaises(WhisperRunError), ModelRaises(WhisperAudioError)}

\* the texts transcribe() returns for a failure
FailureTexts ==
    {TranscriptionFailedPrefix \o e :
        e \in {FileNotFoundError, WhisperLoadError, WhisperRunError, WhisperAudioError}}

SumTexts ==
    {<<>>, Take(MemoText, MinTextLen - 1), Take(MemoText, MinTextLen),
     MemoText, PaddedText, AccentText, LongText}

\* chunk_text(clean_text(t)) for each text of the specifications, evaluated
\* once
ChunksOfTexts ==
    {<<t, chunk_text(clean_text(t), DefaultMaxLength, TRUE)>> :
        t \in SumTexts \cup FailureTexts}

\* cleaned_text = self.clean_text(text); chunks = self.chunk_text(cleaned_text)
\* (the tokenizer is there: the summarizer is)
cleaned_chunks(text) ==
    IF text \in SumTexts \cup FailureTexts
    THEN (CHOOSE t \in ChunksOfTexts : t[1] = text)[2]
    ELSE chunk_text(clean_text(text), DefaultMaxLength, TRUE)

-----------------------------------------------------------------------------
(* summarize *)

\* "Text too short to summarize effectively." (40 characters)
TooShortMsg ==
    <<"T", "e", "x", "t", " ", "t", "o", "o", " ", "s", "h", "o", "r", "t",
      " ", "t", "o", " ", "s", "u", "m", "m", "a", "r", "i", "z", "e", " ",
      "e", "f", "f", "e", "c", "t", "i", "v", "e", "l", "y", ".">>

\* "Could not generate summary." (27 characters)
CouldNotMsg ==
    <<"C", "o", "u", "l", "d", " ", "n", "o", "t", " ", "g", "e", "n", "e",
      "r", "a", "t", "e", " ", "s", "u", "m", "m", "a", "r", "y", ".">>

\* "Summarization failed: " (22 characters)
SumFailedPrefix ==
    <<"S", "u", "m", "m", "a", "r", "i", "z", "a", "t", "i", "o", "n", " ",
      "f", "a", "i", "l", "e", "d", ":", " ">>

\* "Failed to load summarization model" (34 characters)
SumLoadError ==
    <<"F", "a", "i", "l", "e", "d", " ", "t", "o", " ", "l", "o", "a", "d",
      " ", "s", "u", "m", "m", "a", "r", "i", "z", "a", "t", "i", "o", "n",
      " ", "m", "o", "d", "e", "l">>

\* a variant of TooShort: the threshold is one character lower
TooShortOffByOne(text) == text = <<>> \/ Len(Strip(text)) < MinTextLen - 1

\* not text or len(text.strip()) < 50
TooShort(text) == text = <<>> \/ Len(Strip(text)) < MinTextLen

\* what the summarization model does with one chunk: it raises ("error"),
\* returns an empty list ("empty") or returns a summary ("ok")
Outcome(kind, text) == [kind |-> kind, text |-> text]

\* a variant of SummarizeChunks: the loop ends at the first chunk the model
\* fails on
RECURSIVE SummarizeChunksStopAtError(_, _, _, _)
SummarizeChunksStopAtError(n, i, outcomes, params) ==
    IF i > n THEN [summaries |-> <<>>, calls |-> <<>>]
    ELSE LET call == [chunk |-> i, min_length |-> params[1], max_length |-> params[2]]
         IN  IF outcomes[i].kind = "error"
             THEN [summaries |-> <<>>, calls |-> <<call>>]
             ELSE LET rest == SummarizeChunksStopAtError(n, i + 1, outcomes, params)
                  IN  [summaries |-> IF outcomes[i].kind = "ok"
                                     THEN <<outcomes[i].text>> \o rest.summaries
                                     ELSE rest.summaries,
                       calls |-> <<call>> \o rest.calls]

\* the loop over the chunks, from chunk i on:
\* [summaries: chunk_summaries, calls: the model invocations]
RECURSIVE SummarizeChunks(_, _, _, _)
SummarizeChunks(n, i, outcomes, params) ==
    IF i > n THEN [summaries |-> <<>>, calls |-> <<>>]
    ELSE LET rest == SummarizeChunks(n, i + 1, outcomes, params)
             call == [chunk |-> i, min_length |-> params[1], max_length |-> params[2]]
         IN  [summaries |-> IF outcomes[i].kind = "ok"
                            THEN <<outcomes[i].text>> \o rest.summaries
                            ELSE rest.summaries,
              calls |-> <<call>> \o rest.calls]

\* " ".join(chunk_summaries)
JoinSummaries(chunk_summaries) == Join(chunk_summaries, <<" ">>)

\* the summarizer object after "if self.summarizer is None: load_model()":
\* load_model() is memoized, it gives what the first load gave
LoadIfNone(self, cache) == IF self = "none" THEN cache ELSE self

\* summarize() up to the chunking: the length test, the model, clean_text
\* and chunk_text
summarize_begin(text, self, cache) ==
    IF TooShort(text)
    THEN [short |-> TRUE, self |-> self, load_calls |-> 0, chunked |-> FALSE,
          chunks |-> <<>>]
    ELSE LET loaded == LoadIfNone(self, cache)
         IN  [short |-> FALSE, self |-> loaded,
              load_calls |-> IF self = "none" THEN 1 ELSE 0,
              chunked |-> loaded # "none",
              chunks |-> IF loaded = "none" THEN <<>> ELSE cleaned_chunks(text)]

\* what a call of summarize() did: it returned value (kind "return") or
\* raised error (kind "raise"); calls are the model invocations, combined
\* is the text handed to post_process_summary when post is TRUE
Returned(value, b, calls, post, combined) ==
    [kind |-> "return", value |-> value, error |-> "", self |-> b.self,
     load_calls |-> b.load_calls, chunked |-> b.chunked,
     n_chunks |-> Len(b.chunks), calls |-> calls, post |-> post,
     combined |-> combined]

\* post_process_summary of the summaries of one chunk, evaluated once
PostProcessedSummaries ==
    {<<s, c, post_process_summary(s, c)>> : s \in {SummaryA, SummaryB}, c \in Configs}

\* summary = self.post_process_summary(combined_summary, config)
post_processed(combined_summary, config) ==
    IF combined_summary \in {SummaryA, SummaryB}
    THEN (CHOOSE t \in PostProcessedSummaries :
             t[1] = combined_summary /\ t[2] = config)[3]
    ELSE post_process_summary(combined_summary, config)

\* summarize() from the chunks on; outcomes[i] is what the model does with
\* chunk i
summarize_end(b, config, outcomes) ==
    IF b.short THEN Returned(TooShortMsg, b, <<>>, FALSE, <<>>)
    ELSE IF b.self = "none"
    THEN Returned(SumFailedPrefix \o SumLoadError, b, <<>>, FALSE, <<>>)
    ELSE LET params == get_length_params(config.length)
             run    == SummarizeChunks(Len(b.chunks), 1, outcomes, params)
         IN  IF run.summaries = <<>>
             THEN Returned(CouldNotMsg, b, run.calls, FALSE, <<>>)
             ELSE LET combined_summary == JoinSummaries(run.summaries)
                  IN  Returned(post_processed(combined_summary, config),
                               b, run.calls, TRUE, combined_summary)

\* summarize(text, config) on a summarizer object
summarize(text, config, self, cache, outcomes) ==
    summarize_end(summarize_begin(text, self, cache), config, outcomes)

\* the summaries the summarization model gives in the model
ModelSummaries == {SummaryA, SummaryB}

Outcomes ==
    {Outcome("error", <<>>), Outcome("empty", <<>>)}
        \cup {Outcome("ok", s) : s \in ModelSummaries}

-----------------------------------------------------------------------------
(* process_audio (utils/audio_processor.py) *)

\* the audio files handed to process_audio
AudioFiles == {"memo.wav", "silence.ogg", "broken.m4a"}

\* what a file holds: whether AudioSegment.from_*() decodes it, the frame
\* rate and the channels of the decoded audio, and whether the audio is
\* under -20 dBFS once normalized and stripped of silence
FrameRates == {8000, 16000, 22050, 44100}
ChannelCounts == {1, 2}
Undecodable == [decodable |-> FALSE, frame_rate |-> 0, channels |-> 0, quiet |-> FALSE]
AudioContents ==
    [decodable : {TRUE}, frame_rate : FrameRates, channels : ChannelCounts,
     quiet : BOOLEAN] \cup {Undecodable}

\* what the files of the application hold
ContentOf(file) ==
    CASE file = "memo.wav" ->
            [decodable |-> TRUE, frame_rate |-> 44100, channels |-> 2, quiet |-> FALSE]
      [] file = "silence.ogg" ->
            [decodable |-> TRUE, frame_rate |-> 8000, channels |-> 1, quiet |-> TRUE]
      [] OTHER -> Undecodable

\* temp/processed_audio.wav is not there
NoScratch == [src |-> "none", frame_rate |-> 0, channels |-> 0, steps |-> <<>>]

\* AudioSegment.from_*() raises on a file it cannot decode
Decodable(content) == content.decodable

TargetRate == 16000
TargetChannels == 1

\* the audio AudioSegment.from_*() gives; steps are the effects applied to
\* its samples
Decoded(file, content) ==
    [src |-> file, frame_rate |-> content.frame_rate, channels |-> content.channels,
     steps |-> <<>>]

\* the steps of normalize_audio, in order; the last one runs on quiet audio
NormalizeSteps == <<"normalize", "strip_silence", "gain">>

\* the step that raises in a call of normalize_audio, "none" without one
NormalizeFailures == Range(NormalizeSteps) \cup {"none"}

Effect(audio, step) == [audio EXCEPT !.steps = Append(@, step)]

\* a variant of normalize_audio: the audio is normalized in place, a
\* failing step leaves what the steps before it made
normalize_audio_in_place(audio, quiet, fail_at) ==
    LET peak     == Effect(audio, NormalizeSteps[1])
        stripped == Effect(peak, NormalizeSteps[2])
        gained   == IF quiet THEN Effect(stripped, NormalizeSteps[3]) ELSE stripped
    IN  IF fail_at = NormalizeSteps[1] THEN audio
        ELSE IF fail_at = NormalizeSteps[2] THEN peak
        ELSE IF quiet /\ fail_at = NormalizeSteps[3] THEN stripped
        ELSE gained

\* normalize_audio(audio): the normalized audio, or audio itself when a
\* step raises (fail_at); quiet: normalized.dBFS < -20
normalize_audio(audio, quiet, fail_at) ==
    LET peak     == Effect(audio, NormalizeSteps[1])
        stripped == Effect(peak, NormalizeSteps[2])
        gained   == IF quiet THEN Effect(stripped, NormalizeSteps[3]) ELSE stripped
    IN  IF fail_at = NormalizeSteps[1] THEN audio
        ELSE IF fail_at = NormalizeSteps[2] THEN audio
        ELSE IF quiet /\ fail_at = NormalizeSteps[3] THEN audio
        ELSE gained

\* a variant of process_audio: audio that was not normalized is exported
\* with the channels it has
process_audio_keeps_channels(file, content, fail_at) ==
    IF ~Decodable(content) THEN [ok |-> FALSE, audio |-> "none"]
    ELSE LET audio == normalize_audio(Decoded(file, content), content.quiet, fail_at)
         IN  [ok |-> TRUE,
              audio |-> IF audio.steps = <<>>
                        THEN [audio EXCEPT !.frame_rate = TargetRate]
                        ELSE [audio EXCEPT !.frame_rate = TargetRate,
                                           !.channels = TargetChannels]]

\* a variant of process_audio: a file that cannot be decoded gives empty
\* audio and no error
process_audio_swallows_error(file, content, fail_at) ==
    [ok |-> TRUE,
     audio |-> [src |-> file, frame_rate |-> TargetRate, channels |-> TargetChannels,
                steps |-> <<>>]]

\* process_audio(audio_file_path): it raises (ok is FALSE), or it exports
\* audio to temp/processed_audio.wav and returns that path
process_audio(file, content, fail_at) ==
    IF ~Decodable(content) THEN [ok |-> FALSE, audio |-> "none"]
    ELSE [ok |-> TRUE,
          audio |-> [normalize_audio(Decoded(file, content), content.quiet, fail_at)
                        EXCEPT !.frame_rate = TargetRate, !.channels = TargetChannels]]

\* cleanup_temp_files(): what temp/processed_audio.wav holds after it.
\* os.remove removes the file, or it raises (the file or temp/ may not be
\* written), the except of lines 110-111 warns and the file stays
cleanup_temp_files(file, remove_raises) ==
    IF remove_raises THEN file ELSE NoScratch

-----------------------------------------------------------------------------
(* transcribe (utils/transcription.py) *)

\* result["text"] of the speech model for the audio made from a file
SpeechOf(file) ==
    CASE file = "memo.wav" -> <<" ">> \o MemoText
      [] OTHER -> <<" ">>

\* a variant of transcribe: the text of the model is not stripped
transcribe_no_strip(exists, self, cache, run, speech) ==
    IF ~exists
    THEN [value |-> TranscriptionFailedPrefix \o FileNotFoundError,
          failed |-> TRUE, self |-> self]
    ELSE LET loaded == IF self = "none" THEN cache ELSE self
         IN  IF loaded = "none"
             THEN [value |-> TranscriptionFailedPrefix \o WhisperLoadError,
                   failed |-> TRUE, self |-> loaded]
             ELSE IF ~run.ok
             THEN [value |-> TranscriptionFailedPrefix \o run.error,
                   failed |-> TRUE, self |-> loaded]
             ELSE LET transcribed_text == speech
                  IN  [value |-> IF transcribed_text = <<>> THEN NoSpeechMsg
                                 ELSE transcribed_text,
                       failed |-> FALSE, self |-> loaded]

\* transcribe(audio_file_path) on a transcriber object: the text it returns,
\* whether that text reports a failure, and self.model afterwards.
\* exists: os.path.exists(audio_file_path); run: what model.transcribe()
\* does; speech: result["text"]
transcribe(exists, self, cache, run, speech) ==
    IF ~exists
    THEN [value |-> TranscriptionFailedPrefix \o FileNotFoundError,
          failed |-> TRUE, self |-> self]
    ELSE LET loaded == IF self = "none" THEN cache ELSE self
         IN  IF loaded = "none"
             THEN [value |-> TranscriptionFailedPrefix \o WhisperLoadError,
                   failed |-> TRUE, self |-> loaded]
             ELSE IF ~run.ok
             THEN [value |-> TranscriptionFailedPrefix \o run.error,
                   failed |-> TRUE, self |-> loaded]
             ELSE LET transcribed_text == Strip(speech)
                  IN  [value |-> IF transcribed_text = <<>> THEN NoSpeechMsg
                                 ELSE transcribed_text,
                       failed |-> FALSE, self |-> loaded]

\* transcribe_with_timestamps(audio_file_path): the 'text' of the
\* dictionary it returns, and self.model after the call
transcribe_with_timestamps(exists, self, cache, run, speech) ==
    IF ~exists
    THEN [text |-> TranscriptionFailedPrefix \o FileNotFoundError, self |-> self]
    ELSE LET loaded == IF self = "none" THEN cache ELSE self
         IN  IF loaded = "none"
             THEN [text |-> TranscriptionFailedPrefix \o WhisperLoadError,
                   self |-> loaded]
             ELSE IF ~run.ok
             THEN [text |-> TranscriptionFailedPrefix \o run.error,
                   self |-> loaded]
             ELSE [text |-> Strip(speech), self |-> loaded]

\* detect_language(audio_file_path): the code it returns, "en" on every
\* failure, and self.model after the call
detect_language(exists, self, cache, run, detected_language) ==
    IF ~exists THEN [value |-> "en", self |-> self]
    ELSE LET loaded == IF self = "none" THEN cache ELSE self
         IN  [value |-> IF loaded # "none" /\ run.ok THEN detected_language
                        ELSE "en",
              self |-> loaded]

-----------------------------------------------------------------------------
(* SpecChunk: chunk_text on every short text *)

MaxTextLen == 4
MaxBudget == 6

ChunkAlphabet == {"a", " ", ".", "!", ","}
\* the characters of the texts with contractions and line ends
ContractionAlphabet == {"s", "'", "\n", " ", "."}

RECURSIVE SeqsUpTo(_, _)
SeqsUpTo(S, n) ==
    IF n = 0 THEN {<<>>}
    ELSE LET prev == SeqsUpTo(S, n - 1)
         IN  prev \cup {Append(s, c) : s \in {q \in prev : Len(q) = n - 1}, c \in S}

ChunkTexts ==
    SeqsUpTo(ChunkAlphabet, MaxTextLen) \cup SeqsUpTo(ContractionAlphabet, MaxTextLen - 1)

\* the summarizer object is new (self.tokenizer is None) or has taken the
\* tokenizer from the memoized load_model() in an earlier call
ChunkInputs ==
    /\ ck_text \in ChunkTexts
    /\ ck_max \in NumSpecial..MaxBudget
    /\ sum_cache \in {"pipeline", "none"}
    /\ sum_self \in {"none", sum_cache}
    /\ ck_tok = FALSE
    /\ ck_pc = "call"
    /\ ck_out = <<>>

\* chunk_text(text, max_length): without a tokenizer it first takes the
\* pipeline and the tokenizer from load_model() (lines 58-59)
ChunkCall ==
    /\ ck_pc = "call"
    /\ LET loaded == LoadIfNone(sum_self, sum_cache)
       IN  /\ sum_self' = loaded
           /\ ck_tok' = (loaded # "none")
           /\ ck_out' = chunk_text(ck_text, ck_max, loaded # "none")
    /\ ck_pc' = "done"
    /\ UNCHANGED <<ck_text, ck_max, sum_cache, transcriber_cache, transcriber_model>>
    /\ UNCHANGED <<sm_vars, fn_vars>>

ChunkIdle ==
    /\ ck_text = <<>>
    /\ ck_max = DefaultMaxLength
    /\ ck_tok = FALSE
    /\ ck_pc = "idle"
    /\ ck_out = <<>>

-----------------------------------------------------------------------------
(* SpecSum: one call of summarize() *)

NoCall ==
    [kind |-> "none", value |-> <<>>, error |-> "", self |-> "none",
     load_calls |-> 0, chunked |-> FALSE, n_chunks |-> 0, calls |-> <<>>,
     post |-> FALSE, combined |-> <<>>]

SumIdle ==
    /\ sm_text = <<>>
    /\ sm_config = [length |-> LengthOptions[2], style |-> StyleOptions[2],
                    focus |-> FocusOptions[1]]
    /\ sm_pc = "idle"
    /\ sm_outcomes = <<>>
    /\ sm_ret = NoCall

\* the summarizer object is new (self.summarizer is None) or has taken the
\* pipeline from the memoized load_model() in an earlier call
SumInputs ==
    /\ sm_text \in SumTexts
    /\ sm_config \in Configs
    /\ sm_pc = "call"
    /\ sm_outcomes = <<>>
    /\ sm_ret = NoCall
    /\ sum_cache \in {"pipeline", "none"}
    /\ sum_self \in {"none", sum_cache}

SumCall ==
    /\ sm_pc = "call"
    /\ LET b == summarize_begin(sm_text, sum_self, sum_cache)
       IN  \E o \in [1..Len(b.chunks) -> Outcomes] :
               /\ sm_outcomes' = o
               /\ sm_ret' = summarize_end(b, sm_config, o)
               /\ sum_self' = b.self
    /\ sm_pc' = "done"
    /\ UNCHANGED <<sm_text, sm_config, sum_cache, transcriber_cache, transcriber_model>>
    /\ UNCHANGED <<ck_vars, fn_vars>>

-----------------------------------------------------------------------------
(* SpecPost: one call of post_process_summary *)

\* the summaries are made of at most MaxParts of these parts
PostParts ==
    {
     \* "We need to ship it"
     <<"W", "e", " ", "n", "e", "e", "d", " ", "t", "o", " ", "s", "h", "i", "p", " ", "i", "t">>,
     \* "Key"
     <<"K", "e", "y">>,
     \* " the main goal"
     <<" ", "t", "h", "e", " ", "m", "a", "i", "n", " ", "g", "o", "a", "l">>,
     \* "They agreed to go"
     <<"T", "h", "e", "y", " ", "a", "g", "r", "e", "e", "d", " ", "t", "o", " ", "g", "o">>,
     \* ". "
     <<".", " ">>,
     \* "I will go"
     <<"I", " ", "w", "i", "l", "l", " ", "g", "o">>,
     \* "<Kelvin sign>ey: must caf<e acute>!"
     <<"U+212A", "e", "y", ":", " ", "m", "u", "s", "t", " ", "c", "a", "f", "U+00E9", "!">>
    }

MaxParts == 3

\* "This is a very important decision. We need to finalize it by Friday." (68 characters)
ScenarioText ==
    <<"T", "h", "i", "s", " ", "i", "s", " ", "a", " ", "v", "e", "r", "y",
      " ", "i", "m", "p", "o", "r", "t", "a", "n", "t", " ", "d", "e", "c",
      "i", "s", "i", "o", "n", ".", " ", "W", "e", " ", "n", "e", "e", "d",
      " ", "t", "o", " ", "f", "i", "n", "a", "l", "i", "z", "e", " ", "i",
      "t", " ", "b", "y", " ", "F", "r", "i", "d", "a", "y", ".">>

PostTexts ==
    {Flatten(ps) : ps \in SeqsUpTo(PostParts, MaxParts)} \cup {ScenarioText}

\* the 3 styles and the 4 focus modes, under the length of the select box
PostConfigs == {c \in Configs : c.length = LengthOptions[2]}

PostInputs ==
    /\ pp_text \in PostTexts
    /\ pp_config \in PostConfigs
    /\ pp_pc = "call"
    /\ pp_out = <<>>

PostCall ==
    /\ pp_pc = "call"
    /\ pp_out' = post_process_summary(pp_text, pp_config)
    /\ pp_pc' = "done"
    /\ UNCHANGED <<pp_text, pp_config>>
    /\ UNCHANGED <<ck_vars, sm_vars, obj_vars, tr_vars, au_vars, ld_vars, cc_vars>>

-----------------------------------------------------------------------------
(* The functions called on their own: at rest *)

SummarizerIdle == sum_cache = "none" /\ sum_self = "none"

TranscriberIdle == transcriber_cache = "none" /\ transcriber_model = "none"

PostIdle ==
    /\ pp_text = <<>>
    /\ pp_config = [length |-> LengthOptions[2], style |-> StyleOptions[2],
                    focus |-> FocusOptions[1]]
    /\ pp_pc = "idle"
    /\ pp_out = <<>>

NoTranscribeCall == [kind |-> "none", value |-> <<>>, error |-> "none"]

TranscribeIdle ==
    /\ tr_exists = TRUE
    /\ tr_run = ModelReturns
    /\ tr_speech = <<>>
    /\ tr_pc = "idle"
    /\ tr_ret = NoTranscribeCall

NoAudioCall == [ok |-> FALSE, audio |-> "none"]

AudioIdle ==
    /\ au_file = "none"
    /\ au_content = Undecodable
    /\ au_fail = "none"
    /\ au_pc = "idle"
    /\ au_ret = NoAudioCall

\* no object constructed, load_model never called
ModelKinds == {"speech", "summarization"}

NoLoadOp == [op |-> "none", kind |-> "none", called |-> FALSE, before |-> "empty",
             ran |-> FALSE, value |-> "none"]

LoadIdle ==
    /\ ld_memo = [k \in ModelKinds |-> "empty"]
    /\ ld_runs = [k \in ModelKinds |-> 0]
    /\ ld_self = [k \in ModelKinds |-> <<>>]
    /\ ld_last = NoLoadOp
    /\ ld_steps = 0

\* no session
Sessions == {1, 2}

SessionsIdle ==
    /\ cc_audio_file = [s \in Sessions |-> "none"]
    /\ cc_pc = [s \in Sessions |-> "idle"]
    /\ cc_scratch = NoScratch
    /\ cc_loaded = [speech |-> "none", summarization |-> "none"]
    /\ cc_model = "none"
    /\ cc_summarizer = "none"
    /\ cc_heard = [s \in Sessions |-> "none"]
    /\ cc_transcription = [s \in Sessions |-> <<>>]
    /\ cc_summary = [s \in Sessions |-> <<>>]

FnIdle == PostIdle /\ TranscribeIdle /\ AudioIdle /\ LoadIdle /\ SessionsIdle

-----------------------------------------------------------------------------
(* SpecTranscribe: one call of transcribe *)

\* "Call me back." (13 characters)
NoteText ==
    <<"C", "a", "l", "l", " ", "m", "e", " ", "b", "a", "c", "k", ".">>

\* texts of the speech model: none, whitespace, a sentence, a memo
TrSpeeches ==
    {<<>>, <<" ">>, <<"\n">>, <<" ", "\t", " ">>, <<"\r", "U+0085">>, NoteText, <<" ">> \o NoteText,
     NoteText \o <<" ", "\n">>, <<" ">> \o MemoText}

\* the transcriber object is new (self.model is None) or has taken the
\* model from the memoized load_model() in an earlier call
TranscribeInputs ==
    /\ tr_exists \in BOOLEAN
    /\ tr_run \in ModelRuns
    /\ tr_speech \in TrSpeeches
    /\ tr_pc = "call"
    /\ tr_ret = NoTranscribeCall
    /\ transcriber_cache \in {"model", "none"}
    /\ transcriber_model \in {"none", transcriber_cache}

\* transcribe() catches every exception (lines 69-71): a call returns
TranscribeCall ==
    /\ tr_pc = "call"
    /\ LET r == transcribe(tr_exists, transcriber_model, transcriber_cache,
                           tr_run, tr_speech)
       IN  /\ tr_ret' = [kind |-> "return", value |-> r.value, error |-> "none"]
           /\ transcriber_model' = r.self
    /\ tr_pc' = "done"
    /\ UNCHANGED <<tr_exists, tr_run, tr_speech, transcriber_cache>>
    /\ UNCHANGED <<sum_cache, sum_self>>
    /\ UNCHANGED <<ck_vars, sm_vars, pp_vars, au_vars, ld_vars, cc_vars>>

-----------------------------------------------------------------------------
(* SpecAudio: one call of process_audio *)

AudioInputs ==
    /\ au_file \in AudioFiles
    /\ au_content \in AudioContents
    /\ au_fail \in NormalizeFailures
    /\ au_pc = "call"
    /\ au_ret = NoAudioCall

AudioCall ==
    /\ au_pc = "call"
    /\ au_ret' = process_audio(au_file, au_content, au_fail)
    /\ au_pc' = "done"
    /\ UNCHANGED <<au_file, au_content, au_fail>>
    /\ UNCHANGED <<ck_vars, sm_vars, obj_vars, pp_vars, tr_vars, ld_vars, cc_vars>>

-----------------------------------------------------------------------------
(* SpecLoad: objects of the two classes are constructed and called; the
   load_model of each class is wrapped by st.cache_resource, and its only
   parameter _self is left out of the key, so each class has one entry *)

\* the objects constructed of one class, the operations of a behaviour
MaxObjects == 2
MaxLoadSteps == 4

\* what the body of load_model returns when the load succeeds
Loaded(kind) == IF kind = "speech" THEN "model" ELSE "pipeline"

\* the body of load_model returns the model, or None when the load raised
LoadOutcomes(kind) == {Loaded(kind), "none"}

\* a variant of load_model: an entry that holds None is computed again
load_model_retries_failure(memo, outcome) ==
    IF memo \in {"empty", "none"}
    THEN [value |-> outcome, memo |-> outcome, ran |-> TRUE]
    ELSE [value |-> memo, memo |-> memo, ran |-> FALSE]

\* self.load_model(): with no entry the body runs and what it returns (None
\* included) becomes the entry; with an entry the body does not run
load_model(memo, outcome) ==
    IF memo = "empty"
    THEN [value |-> outcome, memo |-> outcome, ran |-> TRUE]
    ELSE [value |-> memo, memo |-> memo, ran |-> FALSE]

\* an operation of an object of class kind that calls load_model
WithLoad(kind, op, self_after, r) ==
    /\ ld_memo' = [ld_memo EXCEPT ![kind] = r.memo]
    /\ ld_runs' = [ld_runs EXCEPT ![kind] = @ + (IF r.ran THEN 1 ELSE 0)]
    /\ ld_self' = [ld_self EXCEPT ![kind] = self_after]
    /\ ld_last' = [op |-> op, kind |-> kind, called |-> TRUE,
                   before |-> ld_memo[kind], ran |-> r.ran, value |-> r.value]

\* an operation that does not get to load_model
WithoutLoad(kind, op, self_after) ==
    /\ ld_self' = [ld_self EXCEPT ![kind] = self_after]
    /\ ld_last' = [NoLoadOp EXCEPT !.op = op, !.kind = kind]
    /\ UNCHANGED <<ld_memo, ld_runs>>

LoadFrame ==
    /\ ld_steps' = ld_steps + 1
    /\ UNCHANGED <<ck_vars, sm_vars, obj_vars, pp_vars, tr_vars, au_vars, cc_vars>>

\* WhisperTranscriber() / HuggingFaceSummarizer(): __init__ sets the field
\* to None and calls load_model(), whose result it drops
Construct(kind) ==
    /\ ld_steps < MaxLoadSteps
    /\ Len(ld_self[kind]) < MaxObjects
    /\ \E outcome \in LoadOutcomes(kind) :
         WithLoad(kind, "construct", Append(ld_self[kind], "none"),
                  load_model(ld_memo[kind], outcome))
    /\ LoadFrame

\* transcribe() of object i: load_model() is called when the file is there
\* and self.model is None
LoadTranscribe(i) ==
    /\ ld_steps < MaxLoadSteps
    /\ i \in 1..Len(ld_self["speech"])
    /\ \E exists \in BOOLEAN, outcome \in LoadOutcomes("speech") :
         LET self == ld_self["speech"][i]
             r    == load_model(ld_memo["speech"], outcome)
             tr   == transcribe(exists, self, r.value, ModelReturns, NoteText)
             objs == [ld_self["speech"] EXCEPT ![i] = tr.self]
         IN  IF exists /\ self = "none"
             THEN WithLoad("speech", "transcribe", objs, r)
             ELSE WithoutLoad("speech", "transcribe", objs)
    /\ LoadFrame

\* transcribe_with_timestamps() of object i: as transcribe()
LoadTimestamps(i) ==
    /\ ld_steps < MaxLoadSteps
    /\ i \in 1..Len(ld_self["speech"])
    /\ \E exists \in BOOLEAN, outcome \in LoadOutcomes("speech") :
         LET self == ld_self["speech"][i]
             r    == load_model(ld_memo["speech"], outcome)
             tr   == transcribe_with_timestamps(exists, self, r.value, ModelReturns, NoteText)
             objs == [ld_self["speech"] EXCEPT ![i] = tr.self]
         IN  IF exists /\ self = "none"
             THEN WithLoad("speech", "transcribe_with_timestamps", objs, r)
             ELSE WithoutLoad("speech", "transcribe_with_timestamps", objs)
    /\ LoadFrame

\* detect_language() of object i: as transcribe()
LoadDetect(i) ==
    /\ ld_steps < MaxLoadSteps
    /\ i \in 1..Len(ld_self["speech"])
    /\ \E exists \in BOOLEAN, outcome \in LoadOutcomes("speech") :
         LET self == ld_self["speech"][i]
             r    == load_model(ld_memo["speech"], outcome)
             dl   == detect_language(exists, self, r.value, ModelReturns, "fr")
             objs == [ld_self["speech"] EXCEPT ![i] = dl.self]
         IN  IF exists /\ self = "none"
             THEN WithLoad("speech", "detect_language", objs, r)
             ELSE WithoutLoad("speech", "detect_language", objs)
    /\ LoadFrame

\* chunk_text() of object i: load_model() is called when self.tokenizer
\* is None, whatever the text
LoadChunk(i) ==
    /\ ld_steps < MaxLoadSteps
    /\ i \in 1..Len(ld_self["summarization"])
    /\ \E outcome \in LoadOutcomes("summarization") :
         LET self == ld_self["summarization"][i]
             r    == load_model(ld_memo["summarization"], outcome)
             objs == [ld_self["summarization"] EXCEPT ![i] = LoadIfNone(self, r.value)]
         IN  IF self = "none"
             THEN WithLoad("summarization", "chunk_text", objs, r)
             ELSE WithoutLoad("summarization", "chunk_text", objs)
    /\ LoadFrame

\* summarize() of object i: load_model() is called when the text is long
\* enough and self.summarizer is None
LoadSummarize(i) ==
    /\ ld_steps < MaxLoadSteps
    /\ i \in 1..Len(ld_self["summarization"])
    /\ \E text \in {NoteText, MemoText}, outcome \in LoadOutcomes("summarization") :
         LET self == ld_self["summarization"][i]
             r    == load_model(ld_memo["summarization"], outcome)
             b    == summarize_begin(text, self, r.value)
             objs == [ld_self["summarization"] EXCEPT ![i] = b.self]
         IN  IF b.load_calls = 1
             THEN WithLoad("summarization", "summarize", objs, r)
             ELSE WithoutLoad("summarization", "summarize", objs)
    /\ LoadFrame

-----------------------------------------------------------------------------
(* SpecSessions: two sessions run the pipeline, each in its own thread, on
   one AudioProcessor, one WhisperTranscriber and one HuggingFaceSummarizer.
   A run calls process_audio on the file of the session, transcribe on the
   path process_audio returned and summarize on the text transcribe
   returned, a stage at a time; an exception a call raises ends the run.
   A session keeps the texts its calls returned, and runs again with
   another file *)

\* what the summarization model does with a chunk in the run of a session
SessionOutcomes == {Outcome("error", <<>>), Outcome("ok", SummaryA)}

\* the config of the sessions: the options the select boxes start with
DefaultSettings ==
    [length |-> LengthOptions[2], style |-> StyleOptions[2], focus |-> FocusOptions[1]]

SessionsFrame ==
    UNCHANGED <<ck_vars, sm_vars, obj_vars, pp_vars, tr_vars, au_vars, ld_vars,
                cc_audio_file, cc_loaded>>

\* audio_processor.process_audio(file): the export goes to
\* temp/processed_audio.wav whatever the session
SessionProcessAudio(s) ==
    /\ cc_pc[s] = "ready"
    /\ \E fail_at \in NormalizeFailures :
         LET pa == process_audio(cc_audio_file[s], ContentOf(cc_audio_file[s]), fail_at)
         IN  IF pa.ok
             THEN /\ cc_scratch' = pa.audio
                  /\ cc_pc' = [cc_pc EXCEPT ![s] = "audio"]
             ELSE /\ cc_pc' = [cc_pc EXCEPT ![s] = "error"]
                  /\ UNCHANGED cc_scratch
    /\ UNCHANGED <<cc_model, cc_summarizer, cc_heard, cc_transcription, cc_summary>>
    /\ SessionsFrame

\* an AudioProcessor is destroyed while sessions run: __del__ calls
\* cleanup_temp_files(), which removes temp/processed_audio.wav or leaves
\* it when os.remove raises
SessionsCleanup ==
    /\ cc_scratch # NoScratch
    /\ \E remove_raises \in BOOLEAN :
         cc_scratch' = cleanup_temp_files(cc_scratch, remove_raises)
    /\ UNCHANGED <<cc_pc, cc_model, cc_summarizer, cc_heard, cc_transcription, cc_summary>>
    /\ SessionsFrame

\* transcription = transcriber.transcribe(processed_audio), in the four
\* steps that no lock holds together: the test of line 44, the model of
\* lines 47-51, the speech model reading the file at line 54, its return.
\* Line 44: os.path.exists(audio_file_path)
SessionTranscribeExists(s) ==
    /\ cc_pc[s] = "audio"
    /\ IF cc_scratch # NoScratch
       THEN /\ cc_pc' = [cc_pc EXCEPT ![s] = "exists"]
            /\ UNCHANGED cc_transcription
       ELSE LET tr == transcribe(FALSE, cc_model, cc_loaded.speech, ModelReturns, <<>>)
            IN  /\ cc_transcription' = [cc_transcription EXCEPT ![s] = tr.value]
                /\ cc_pc' = [cc_pc EXCEPT ![s] = "text"]
    /\ UNCHANGED <<cc_scratch, cc_model, cc_summarizer, cc_heard, cc_summary>>
    /\ SessionsFrame

\* lines 47-51: self.model = self.load_model() when it is None
SessionTranscribeLoad(s) ==
    /\ cc_pc[s] = "exists"
    /\ LET tr == transcribe(TRUE, cc_model, cc_loaded.speech, ModelReturns, <<>>)
       IN  /\ cc_model' = tr.self
           /\ IF tr.self = "none"
              THEN /\ cc_transcription' = [cc_transcription EXCEPT ![s] = tr.value]
                   /\ cc_pc' = [cc_pc EXCEPT ![s] = "text"]
              ELSE /\ cc_pc' = [cc_pc EXCEPT ![s] = "model"]
                   /\ UNCHANGED cc_transcription
    /\ UNCHANGED <<cc_scratch, cc_summarizer, cc_heard, cc_summary>>
    /\ SessionsFrame

\* line 54: the speech model reads what temp/processed_audio.wav holds
\* now; the call of the model has not returned
SessionTranscribeRead(s) ==
    /\ cc_pc[s] = "model"
    /\ cc_heard' = [cc_heard EXCEPT ![s] =
                      IF cc_scratch = NoScratch THEN "none" ELSE cc_scratch.src]
    /\ cc_pc' = [cc_pc EXCEPT ![s] = "read"]
    /\ UNCHANGED <<cc_scratch, cc_model, cc_summarizer, cc_transcription, cc_summary>>
    /\ SessionsFrame

\* lines 54-71: the speech model returns the text of the audio it read, or
\* it raises (at once when the file was gone), and transcribe returns
SessionTranscribeReturn(s) ==
    /\ cc_pc[s] = "read"
    /\ \E run \in IF cc_heard[s] = "none" THEN {ModelRaises(WhisperAudioError)}
                   ELSE {ModelReturns, ModelRaises(WhisperRunError)} :
         LET tr == transcribe(TRUE, cc_model, cc_loaded.speech, run,
                              IF cc_heard[s] = "none" THEN <<>>
                              ELSE SpeechOf(cc_heard[s]))
         IN  cc_transcription' = [cc_transcription EXCEPT ![s] = tr.value]
    /\ cc_pc' = [cc_pc EXCEPT ![s] = "text"]
    /\ UNCHANGED <<cc_scratch, cc_model, cc_summarizer, cc_heard, cc_summary>>
    /\ SessionsFrame

\* summarizer.summarize(transcription, config) on the text the session
\* has, up to the call of the summarization model: the length test of
\* lines 111-112, self.summarizer of lines 114-115, the test of line 117,
\* clean_text and chunk_text.  A text too short and a model that did not
\* load make summarize return here
SessionSummarizeLoad(s) ==
    /\ cc_pc[s] = "text"
    /\ \E b \in {summarize_begin(cc_transcription[s], cc_summarizer,
                                   cc_loaded.summarization)} :
           /\ cc_summarizer' = b.self
           /\ IF b.chunks = <<>>
              THEN \E r \in {summarize_end(b, DefaultSettings, <<>>)} :
                     /\ cc_summary' = [cc_summary EXCEPT ![s] = r.value]
                     /\ cc_pc' = [cc_pc EXCEPT ![s] = "done"]
              ELSE /\ cc_pc' = [cc_pc EXCEPT ![s] = "chunks"]
                   /\ UNCHANGED cc_summary
    /\ UNCHANGED <<cc_scratch, cc_model, cc_heard, cc_transcription>>
    /\ SessionsFrame

\* lines 131-163: the summarization model runs on the chunks (the texts of
\* the sessions make one chunk) and summarize returns
SessionSummarizeRun(s) ==
    /\ cc_pc[s] = "chunks"
    /\ \E b \in {summarize_begin(cc_transcription[s], cc_summarizer,
                                   cc_loaded.summarization)} :
         \E o \in [1..Len(b.chunks) -> SessionOutcomes] :
           \E r \in {summarize_end(b, DefaultSettings, o)} :
              cc_summary' = [cc_summary EXCEPT ![s] = r.value]
    /\ cc_pc' = [cc_pc EXCEPT ![s] = "done"]
    /\ UNCHANGED <<cc_scratch, cc_model, cc_summarizer, cc_heard, cc_transcription>>
    /\ SessionsFrame

\* the session runs the pipeline again, on a file: what its calls returned
\* before stays with it
SessionAgain(s, file) ==
    /\ cc_pc[s] \in {"done", "error"}
    /\ cc_audio_file' = [cc_audio_file EXCEPT ![s] = file]
    /\ cc_pc' = [cc_pc EXCEPT ![s] = "ready"]
    /\ cc_heard' = [cc_heard EXCEPT ![s] = "none"]
    /\ UNCHANGED <<cc_scratch, cc_loaded, cc_model, cc_summarizer, cc_transcription,
                   cc_summary>>
    /\ UNCHANGED <<ck_vars, sm_vars, obj_vars, pp_vars, tr_vars, au_vars, ld_vars>>

-----------------------------------------------------------------------------
(* The specifications *)

\* chunk_text on its own
ChunkInit ==
    ChunkInputs /\ SumIdle /\ TranscriberIdle /\ FnIdle
ChunkNext == ChunkCall
SpecChunk == ChunkInit /\ [][ChunkNext]_vars

\* summarize on its own
SumInit == SumInputs /\ ChunkIdle /\ TranscriberIdle /\ FnIdle
SumNext == SumCall
SpecSum == SumInit /\ [][SumNext]_vars

\* post_process_summary on its own
PostInit ==
    /\ PostInputs /\ TranscribeIdle /\ AudioIdle /\ LoadIdle /\ SessionsIdle
    /\ ChunkIdle /\ SumIdle /\ SummarizerIdle /\ TranscriberIdle
PostNext == PostCall
SpecPost == PostInit /\ [][PostNext]_vars

\* transcribe on its own
TranscribeInit ==
    /\ TranscribeInputs /\ PostIdle /\ AudioIdle /\ LoadIdle /\ SessionsIdle
    /\ ChunkIdle /\ SumIdle /\ SummarizerIdle
TranscribeNext == TranscribeCall
SpecTranscribe == TranscribeInit /\ [][TranscribeNext]_vars

\* process_audio on its own
AudioInit ==
    /\ AudioInputs /\ PostIdle /\ TranscribeIdle /\ LoadIdle /\ SessionsIdle
    /\ ChunkIdle /\ SumIdle /\ SummarizerIdle /\ TranscriberIdle
AudioNext == AudioCall
SpecAudio == AudioInit /\ [][AudioNext]_vars

\* the objects and their memoized load_model
LoadInit ==
    /\ LoadIdle /\ PostIdle /\ TranscribeIdle /\ AudioIdle /\ SessionsIdle
    /\ ChunkIdle /\ SumIdle /\ SummarizerIdle /\ TranscriberIdle
LoadNext ==
    \/ \E kind \in ModelKinds : Construct(kind)
    \/ \E i \in 1..MaxObjects : LoadTranscribe(i)
    \/ \E i \in 1..MaxObjects : LoadSummarize(i)
    \/ \E i \in 1..MaxObjects : LoadTimestamps(i)
    \/ \E i \in 1..MaxObjects : LoadDetect(i)
    \/ \E i \in 1..MaxObjects : LoadChunk(i)
SpecLoad == LoadInit /\ [][LoadNext]_vars

\* two sessions, each with a file, before their first run
SessionsInit ==
    /\ cc_audio_file \in [Sessions -> AudioFiles]
    /\ cc_pc = [s \in Sessions |-> "ready"]
    /\ cc_scratch = NoScratch
    /\ cc_loaded \in [speech : {"model", "none"}, summarization : {"pipeline", "none"}]
    /\ cc_model = "none"
    /\ cc_summarizer = "none"
    /\ cc_heard = [s \in Sessions |-> "none"]
    /\ cc_transcription = [s \in Sessions |-> <<>>]
    /\ cc_summary = [s \in Sessions |-> <<>>]
    /\ PostIdle /\ TranscribeIdle /\ AudioIdle /\ LoadIdle
    /\ ChunkIdle /\ SumIdle /\ SummarizerIdle /\ TranscriberIdle
SessionsNext ==
    \/ \E s \in Sessions : SessionProcessAudio(s)
    \/ \E s \in Sessions : SessionTranscribeExists(s)
    \/ \E s \in Sessions : SessionTranscribeLoad(s)
    \/ \E s \in Sessions : SessionTranscribeRead(s)
    \/ \E s \in Sessions : SessionTranscribeReturn(s)
    \/ \E s \in Sessions : SessionSummarizeLoad(s)
    \/ \E s \in Sessions : SessionSummarizeRun(s)
    \/ \E s \in Sessions, file \in AudioFiles : SessionAgain(s, file)
    \/ SessionsCleanup
SpecSessions == SessionsInit /\ [][SessionsNext]_vars

-----------------------------------------------------------------------------
(* Properties of chunk_text (SpecChunk) *)

IsBlank(t) == \A i \in 1..Len(t) : IsSpace(t[i])

NotSpace(c) == ~IsSpace(c)

\* the text without its whitespace
NoSpace(t) == SelectSeq(t, NotSpace)

\* C3: every chunk chunk_text returns has at most max_tokens tokens under
\* the summarizer's tokenizer, whatever the text and max_tokens.
C3_ChunksWithinBudget ==
    (ck_pc = "done" /\ ck_tok) =>
        \A i \in 1..Len(ck_out) : EncodeLen(ck_out[i]) <= ck_max

\* C7: when chunk_text returns more than one chunk and no sentence alone
\* is over max_tokens, the chunks concatenated in order are the source text
\* up to whitespace.
C7_ConcatenationIsSource ==
    (/\ ck_pc = "done"
     /\ ck_tok
     /\ Len(ck_out) > 1
     /\ \A j \in 1..Len(Split(ck_text)) : EncodeLen(Split(ck_text)[j]) <= ck_max)
        => NoSpace(Flatten(ck_out)) = NoSpace(ck_text)

\* C8: a text whose token count is within max_tokens comes back as exactly
\* one chunk, equal to the text.
C8_UnderBudgetOneChunk ==
    (ck_pc = "done" /\ ck_tok /\ EncodeLen(ck_text) <= ck_max)
        => ck_out = <<ck_text>>

C8_Witness ==
    /\ ck_pc = "done"
    /\ ck_tok
    /\ Len(ck_text) = MaxTextLen
    /\ EncodeLen(ck_text) = ck_max
    /\ ck_out = <<ck_text>>

\* C9: chunk_text returns at least one chunk on every path, and exactly one
\* chunk for an empty or whitespace-only text.
C9_AtLeastOneChunk ==
    ck_pc = "done" =>
        /\ Len(ck_out) >= 1
        /\ IsBlank(ck_text) => Len(ck_out) = 1

C9_Witness ==
    /\ ck_pc = "done"
    /\ ck_tok
    /\ ck_text # <<>>
    /\ IsBlank(ck_text)
    /\ EncodeLen(ck_text) > ck_max
    /\ Len(ck_out) = 1

-----------------------------------------------------------------------------
(* Properties of summarize (SpecSum) *)

IsOk(outcome) == outcome.kind = "ok"

RECURSIVE JoinedBySpace(_)
JoinedBySpace(ts) ==
    IF ts = <<>> THEN <<>>
    ELSE IF Len(ts) = 1 THEN ts[1]
    ELSE ts[1] \o <<" ">> \o JoinedBySpace(Tail(ts))

\* the summaries the model gave, in chunk order
GivenSummaries(outcomes) ==
    LET oks == SelectSeq(outcomes, IsOk)
    IN  [i \in 1..Len(oks) |-> oks[i].text]

\* C4: when the model call fails for every chunk of a text of at least 50
\* characters, summarize() raises SummarizationFailed.
C4_AllChunksFailRaises ==
    (/\ sm_pc = "done"
     /\ Len(sm_text) >= MinTextLen
     /\ sm_ret.calls # <<>>
     /\ \A i \in 1..Len(sm_outcomes) : sm_outcomes[i].kind = "error")
        => (sm_ret.kind = "raise" /\ sm_ret.error = "SummarizationFailed")

\* C5: when at least one chunk is summarized, the model is called on every
\* chunk in order, and the text handed to post-processing is the summaries
\* the model gave, in chunk order, joined by one space.
C5_CombinedIsJoinOfSuccesses ==
    (sm_pc = "done" /\ \E i \in 1..Len(sm_outcomes) : IsOk(sm_outcomes[i]))
        => /\ sm_ret.post
           /\ sm_ret.combined = JoinedBySpace(GivenSummaries(sm_outcomes))
           /\ Len(sm_ret.calls) = sm_ret.n_chunks
           /\ \A i \in 1..Len(sm_ret.calls) : sm_ret.calls[i].chunk = i

C5_Witness ==
    /\ sm_pc = "done"
    /\ Len(sm_outcomes) = 3
    /\ IsOk(sm_outcomes[1])
    /\ sm_outcomes[2].kind = "error"
    /\ IsOk(sm_outcomes[3])
    /\ sm_outcomes[1].text # sm_outcomes[3].text
    /\ sm_ret.post

\* C6: for a text of fewer than 50 characters summarize() returns the fixed
\* message, and it neither loads nor calls the model, nor chunks, nor
\* post-processes.
C6_ShortTextNoModel ==
    (sm_pc = "done" /\ Len(sm_text) < MinTextLen)
        => /\ sm_ret.kind = "return"
           /\ sm_ret.value = TooShortMsg
           /\ sm_ret.load_calls = 0
           /\ sm_ret.calls = <<>>
           /\ ~sm_ret.chunked
           /\ ~sm_ret.post

C6_Witness ==
    /\ sm_pc = "done"
    /\ Len(sm_text) = MinTextLen - 1
    /\ ~IsSpace(sm_text[1])
    /\ sum_self = "none"
    /\ sum_cache = "pipeline"
    /\ sm_ret.value = TooShortMsg

\* the bounds the design gives each length setting
BoundsOfSetting(length_setting) ==
    CASE length_setting = ShortLabel -> <<10, 50>>
      [] length_setting = MediumLabel -> <<50, 150>>
      [] length_setting = LongLabel -> <<100, 300>>

\* C10: every model call of a run gets the (min, max) of the run's length
\* setting, Short (10,50), Medium (50,150), Long (100,300); min < max for
\* each setting, and min and max grow from Short to Medium to Long.
C10_LengthBounds ==
    /\ sm_pc = "done" =>
          \A i \in 1..Len(sm_ret.calls) :
              <<sm_ret.calls[i].min_length, sm_ret.calls[i].max_length>>
                  = BoundsOfSetting(sm_config.length)
    /\ \A i \in 1..Len(LengthOptions) :
          get_length_params(LengthOptions[i])[1] < get_length_params(LengthOptions[i])[2]
    /\ \A i \in 1..(Len(LengthOptions) - 1) :
          /\ get_length_params(LengthOptions[i])[1] < get_length_params(LengthOptions[i + 1])[1]
          /\ get_length_params(LengthOptions[i])[2] < get_length_params(LengthOptions[i + 1])[2]

C10_Witness ==
    /\ sm_pc = "done"
    /\ sm_config.length = LongLabel
    /\ Len(sm_ret.calls) = 3
    /\ sm_ret.calls[3].max_length = 300

-----------------------------------------------------------------------------
(* Properties of the runs of the pipeline (SpecSessions) *)

\* the texts summarize() returns for a failure
SummaryFailureTexts == {CouldNotMsg, SumFailedPrefix \o SumLoadError}

\* C1: a run whose transcription fails (missing audio path, speech model
\* unavailable, model error) does not go on to summarize(), and no failure
\* text is kept as the transcript or the summary of a session.
C1_FailedStageAbortsRun ==
    \A s \in Sessions :
        /\ cc_pc[s] = "done" => cc_transcription[s] \notin FailureTexts
        /\ cc_transcription[s] \notin FailureTexts
        /\ cc_summary[s] \notin SummaryFailureTexts

-----------------------------------------------------------------------------
(* Properties of post_process_summary (SpecPost) *)

\* the style transform of a style
StyleOf(style, text) ==
    CASE style = "Bullet Points" -> format_as_bullets(text)
      [] style = "Executive Summary" -> format_as_executive_summary(text)
      [] style = "Paragraph" -> text

\* the focus transform of a focus mode
FocusOf(focus, text) ==
    CASE focus = "Key Points" -> emphasize_key_points(text)
      [] focus = "Action Items" -> extract_action_items(text)
      [] focus = "Decisions Made" -> extract_decisions(text)
      [] focus = "General" -> text

\* C11: for each of the 3 styles and 4 focus modes post_process_summary
\* returns the focus transform of the style transform of the text.
C11_FocusOfStyle ==
    pp_pc = "done" =>
        pp_out = FocusOf(pp_config.focus, StyleOf(pp_config.style, pp_text))

\* the order matters here: focus first, or focus on the raw text, gives
\* another text
C11_Witness ==
    /\ pp_pc = "done"
    /\ pp_config.style = "Bullet Points"
    /\ pp_config.focus = "Action Items"
    /\ pp_out # StyleOf(pp_config.style, FocusOf(pp_config.focus, pp_text))
    /\ pp_out # FocusOf(pp_config.focus, pp_text)
    /\ pp_out # StyleOf(pp_config.style, pp_text)


\* the positions of t where a line with the bullet prefix begins
BulletLineStarts(t) ==
    {i \in 1..Len(t) : t[i] = Bullet /\ (i = 1 \/ t[i - 1] = "\n")}

\* the end of the line that holds position i
LineEnd(t, i) ==
    IF \E j \in i..Len(t) : t[j] = "\n"
    THEN (CHOOSE j \in i..Len(t) : t[j] = "\n" /\ \A k \in i..(j - 1) : t[k] # "\n") - 1
    ELSE Len(t)

\* what follows the bullet and its space on the line that begins at i
BulletFragment(t, i) == SubSeq(t, i + 2, LineEnd(t, i))

\* C12: with style Bullet Points, whatever the text and the focus, no line
\* of the output that begins with a bullet carries a fragment of 10
\* characters or fewer.
C12_NoShortBullet ==
    (pp_pc = "done" /\ pp_config.style = "Bullet Points") =>
        \A i \in BulletLineStarts(pp_out) : Len(BulletFragment(pp_out, i)) > 10


\* one of the patterns matches somewhere in t
SomeMatch(t, patterns) ==
    \E p \in 1..Len(patterns) : \E i \in 1..Len(t) : PatternAt(t, i, patterns[p]) > 0

\* out is the header and then one bullet line per match, and no more;
\* or, with no match, out is the styled text
ExtractionOf(out, styled, patterns, header) ==
    IF SomeMatch(styled, patterns)
    THEN LET matches == AllMatches(styled, patterns)
             starts  == SortedSeq(BulletLineStarts(out))
         IN  /\ Len(out) > Len(header)
             /\ SubSeq(out, 1, Len(header)) = header
             /\ Len(starts) = Len(matches)
             /\ starts[1] = Len(header) + 1
             /\ \A k \in 1..Len(starts) :
                    /\ BulletFragment(out, starts[k]) = matches[k]
                    /\ LineEnd(out, starts[k]) =
                          IF k = Len(starts) THEN Len(out) ELSE starts[k + 1] - 2
    ELSE out = styled

\* C13: for the focus Action Items and the focus Decisions Made and every
\* styled text: when a pattern of the focus matches, the output is the
\* header of the focus followed by one bullet per match and nothing else of
\* the text; when none matches, the output is the styled text.
C13_ExtractOrPassThrough ==
    LET styled == StyleOf(pp_config.style, pp_text)
    IN  /\ (pp_pc = "done" /\ pp_config.focus = "Action Items") =>
               ExtractionOf(pp_out, styled, action_patterns, ActionHeader)
        /\ (pp_pc = "done" /\ pp_config.focus = "Decisions Made") =>
               ExtractionOf(pp_out, styled, decision_patterns, DecisionHeader)

\* two matches in a text that holds more than the matches
C13_Witness ==
    /\ pp_pc = "done"
    /\ pp_config.focus = "Decisions Made"
    /\ pp_config.style = "Executive Summary"
    /\ Cardinality(BulletLineStarts(pp_out)) = 2
    /\ SubSeq(pp_out, 1, Len(DecisionHeader)) = DecisionHeader


\* "Action Items" (12 characters)
ActionItemsTitle ==
    <<"A", "c", "t", "i", "o", "n", " ", "I", "t", "e", "m", "s">>

\* "need to finalize it by Friday" (29 characters)
ScenarioSpan ==
    <<"n", "e", "e", "d", " ", "t", "o", " ", "f", "i", "n", "a", "l", "i",
      "z", "e", " ", "i", "t", " ", "b", "y", " ", "F", "r", "i", "d", "a",
      "y">>

\* words of the first sentence of ScenarioText
WordThis ==
    <<"T", "h", "i", "s">>

WordVery ==
    <<"v", "e", "r", "y">>

WordImportant ==
    <<"i", "m", "p", "o", "r", "t", "a", "n", "t">>

WordDecision ==
    <<"d", "e", "c", "i", "s", "i", "o", "n">>

ScenarioFirstWords == {WordThis, WordVery, WordImportant, WordDecision}

\* C14: post-processing ScenarioText under Medium, Paragraph, Action Items
\* gives a bulleted list under an "Action Items" header, a bullet of which
\* holds "need to finalize it by Friday", and nothing of the first
\* sentence is left in it.
C14_ScenarioActionItems ==
    (/\ pp_pc = "done"
     /\ pp_text = ScenarioText
     /\ pp_config = [length |-> MediumLabel, style |-> "Paragraph",
                     focus |-> "Action Items"])
        => /\ Contains(SubSeq(pp_out, 1, LineEnd(pp_out, 1)), ActionItemsTitle)
           /\ BulletLineStarts(pp_out) # {}
           /\ \E i \in BulletLineStarts(pp_out) :
                  Contains(BulletFragment(pp_out, i), ScenarioSpan)
           /\ \A w \in ScenarioFirstWords : ~Contains(pp_out, w)


NotStar(c) == c # "*"

\* the text without the emphasis markers (the texts handed in hold none)
WithoutMarkers(t) == SelectSeq(t, NotStar)

\* C15: the focus Key Points only wraps: the output without the markers it
\* added is the text it was given, character by character, the casing of
\* each key word included.
C15_KeyPointsOnlyWraps ==
    (/\ pp_pc = "done"
     /\ pp_config.focus = "Key Points"
     /\ pp_config.style # "Executive Summary")
        => WithoutMarkers(pp_out) = StyleOf(pp_config.style, pp_text)

-----------------------------------------------------------------------------
(* Properties of transcribe (SpecTranscribe) *)

\* C16: transcribe never returns an empty transcript; when the speech
\* model gives an empty or whitespace-only text for an audio file that
\* exists, transcribe returns the "No speech detected" sentence, as a
\* result and not as a failure.
C16_NoSpeechSentinel ==
    tr_pc = "done" =>
        /\ Strip(tr_ret.value) # <<>>
        /\ (tr_exists /\ transcriber_model # "none" /\ tr_run.ok /\ IsBlank(tr_speech))
              => /\ tr_ret.kind = "return"
                 /\ tr_ret.value = NoSpeechMsg
                 /\ tr_ret.value \notin FailureTexts

C16_Witness ==
    /\ tr_pc = "done"
    /\ tr_exists
    /\ tr_run.ok
    /\ transcriber_model = "model"
    /\ tr_speech # <<>>
    /\ IsBlank(tr_speech)
    /\ tr_ret.value = NoSpeechMsg

\* C17: transcribe fails with SourceNotFound when the audio path does not
\* exist and with ModelUnavailable when the speech model cannot be loaded;
\* in neither case does it return a text.
C17_TypedErrors ==
    /\ (tr_pc = "done" /\ ~tr_exists)
          => (tr_ret.kind = "raise" /\ tr_ret.error = "SourceNotFound")
    /\ (tr_pc = "done" /\ tr_exists /\ transcriber_model = "none")
          => (tr_ret.kind = "raise" /\ tr_ret.error = "ModelUnavailable")

-----------------------------------------------------------------------------
(* Properties of process_audio (SpecAudio, SpecSessions) *)

C19_MonoAtTargetRate ==
    (au_pc = "done" /\ Decodable(au_content)) =>
        /\ au_ret.ok
        /\ au_ret.audio.channels = 1
        /\ au_ret.audio.frame_rate = 16000

C19_Witness ==
    /\ au_pc = "done"
    /\ au_content.channels = 2
    /\ au_content.frame_rate = 44100
    /\ au_fail = "strip_silence"
    /\ au_ret.ok
    /\ au_ret.audio.channels = 1

\* C20: when a step of normalize_audio raises (normalize, strip_silence,
\* or the gain that quiet audio gets), process_audio still returns, and
\* the audio it resamples and exports is the decoded audio with no effect
\* applied to it.
C20_NormalizationFallback ==
    (/\ au_pc = "done"
     /\ Decodable(au_content)
     /\ au_fail # "none"
     /\ au_fail = "gain" => au_content.quiet)
        => /\ au_ret.ok
           /\ au_ret.audio.steps = <<>>
           /\ au_ret.audio.src = au_file

C20_Witness ==
    /\ au_pc = "done"
    /\ au_content.quiet
    /\ au_fail = "gain"
    /\ au_ret.ok
    /\ au_ret.audio.steps = <<>>

\* C21: over any sequence of constructions and calls of the methods that
\* load (transcribe, transcribe_with_timestamps, detect_language, summarize,
\* chunk_text), the body of load_model of each class has run at most once; a call
\* of load_model that finds an entry does not run the body and gets the
\* entry, None of a failed load included; and the field of every object is
\* None or the entry.
C21_LoadedAtMostOnce ==
    /\ \A k \in ModelKinds : ld_runs[k] <= 1
    /\ (ld_last.called /\ ld_last.before # "empty")
          => ~ld_last.ran /\ ld_last.value = ld_last.before
    /\ \A k \in ModelKinds : \A i \in 1..Len(ld_self[k]) :
          ld_self[k][i] \in {"none", ld_memo[k]}

\* the load of the speech model failed at the construction, and a later
\* transcribe() called load_model again and got None
C21_Witness ==
    /\ ld_runs["speech"] = 1
    /\ ld_memo["speech"] = "none"
    /\ ld_last.op = "transcribe"
    /\ ld_last.called
    /\ ld_last.before = "none"
    /\ ld_steps >= 3

\* C22: in every interleaving of two sessions that run "Process Audio", the
\* audio the transcribe() of a session read is the audio made from that
\* session's own file.
C22_OwnAudioTranscribed ==
    \A s \in Sessions : cc_heard[s] # "none" => cc_heard[s] = cc_audio_file[s]

=============================================================================
